---- MODULE Spec2Model ----
(***************************************************************************)
(* Entity-media aggregation and reconciliation of the admin backend.       *)
(*                                                                         *)
(* Strings whose inner structure the code inspects (grouping keys joined   *)
(* and split on '|', object keys with a folder prefix and a file           *)
(* extension) are sequences of symbols: <<"A", "|", "B">> is the string    *)
(* "A|B", <<"vehicles", "/", "a", ".", "JPG">> is "vehicles/a.JPG".  A      *)
(* symbol other than "|", "/" and "." stands for a run of characters       *)
(* holding none of these three.                                            *)
(***************************************************************************)
EXTENDS Integers, Sequences, FiniteSets, TLC

VARIABLES
    picturesCollection,           \* Picture rows, in insertion order
    seriesCollection,             \* VehicleSeries rows
    transitHubPicturesCollection, \* TransitHubMedia rows
    objectStore,                  \* bucket -> keys in the order the store lists them
    resp,                         \* outcome of the last finished call
    storeReqs,                    \* document-store requests issued by the current/last call
    storeFailed,                  \* a document-store request of that call has failed
    lpc,                          \* listImages: "idle", or "awaiting" a page response
    caller,                       \* who awaits listImages: "none", "direct", a domain
    bucketName, folderPrefix,     \* listImages: arguments
    continuationToken,            \* listImages: local
    s3Images,                     \* listImages: local accumulator
    s3Reqs,                       \* page requests sent by the current/last listImages call
    s3Failed,                     \* a page request of the current/last call has failed
    linkedPictures,               \* getUnlinked*: URLs read from the store
    cancelledAt,                  \* 0, or the page requests sent when the caller of
                                  \* the current/last listImages call went away
    client,                       \* the admin client: the last unlinked list it was
                                  \* shown and the URLs it has linked since
    carriersCollection,           \* Carrier rows
    vehiclesCollection,           \* Vehicle rows
    transitHubsCollection,        \* TransitHub rows
    regionsCollection,            \* Region rows
    regionTransitHubsCollection,  \* RegionTransitHub rows
    uuidsIssued,                  \* entity collection -> identifiers generated for it
    s3Responses,                  \* page requests of the current/last listImages call
                                  \* that were answered or have failed
    request,                      \* the HTTP request last received by a backend
    calls                         \* call -> the frame of a call that runs beside others

storeVars == <<picturesCollection, seriesCollection, transitHubPicturesCollection>>
listVars  == <<lpc, caller, bucketName, folderPrefix, continuationToken, s3Images,
               s3Reqs, s3Failed, cancelledAt, s3Responses>>
entityVars == <<carriersCollection, vehiclesCollection, transitHubsCollection,
                regionsCollection, regionTransitHubsCollection, uuidsIssued>>
vars == <<picturesCollection, seriesCollection, transitHubPicturesCollection,
          objectStore, resp, storeReqs, storeFailed, lpc, caller, bucketName,
          folderPrefix, continuationToken, s3Images, s3Reqs, s3Failed, linkedPictures,
          cancelledAt, client, carriersCollection, vehiclesCollection,
          transitHubsCollection, regionsCollection, regionTransitHubsCollection,
          uuidsIssued, s3Responses, request, calls>>

cancelled == cancelledAt > 0

-----------------------------------------------------------------------------
(* Bounds of the model. *)
MaxPictures == 3
MaxSeries   == 2
MaxMedia    == 1
MaxObjects  == 3
\* Pictures linked while reconciling.
MaxLinks    == 2
\* Entity and relation rows created in all while entities are listed and deleted.
MaxRows     == 3
\* Entity and relation rows created in all while entities are updated.
MaxCreated  == 2
\* Calls that run at the same time.
MaxCalls    == 2
\* Page requests after which the object store's listing has ended.
MaxPageRequests == 3

-----------------------------------------------------------------------------
(* JavaScript values. *)

\* `undefined` is a value no string equals: one reserved symbol.
Undefined == <<"\\undefined">>
EmptyStr  == <<>>

\* `!v` for a string (or absent) field of a request body.
Falsy(v) == v = Undefined \/ v = EmptyStr

\* String.prototype.trim: the symbol " " is white space.
RECURSIVE TrimLeft(_)
TrimLeft(s) == IF s # <<>> /\ Head(s) = " " THEN TrimLeft(Tail(s)) ELSE s
RECURSIVE TrimRight(_)
TrimRight(s) == IF s # <<>> /\ s[Len(s)] = " " THEN TrimRight(SubSeq(s, 1, Len(s) - 1)) ELSE s
Trim(s) == TrimRight(TrimLeft(s))

\* String.prototype.split(sep) for a one-character separator.
RECURSIVE SplitFrom(_, _, _, _)
SplitFrom(s, sep, i, cur) ==
    IF i > Len(s) THEN <<cur>>
    ELSE IF s[i] = sep THEN <<cur>> \o SplitFrom(s, sep, i + 1, <<>>)
    ELSE SplitFrom(s, sep, i + 1, Append(cur, s[i]))
Split(s, sep) == SplitFrom(s, sep, 1, <<>>)

\* Array element read: undefined past the end.
At(arr, i) == IF i \in 1..Len(arr) THEN arr[i] ELSE Undefined

\* A Map is the sequence of its entries <<key, value>> in insertion order.
MapIndex(m, k) == {i \in 1..Len(m) : m[i][1] = k}
MapHas(m, k) == MapIndex(m, k) # {}
MapGet(m, k) == IF MapHas(m, k) THEN m[CHOOSE i \in MapIndex(m, k) : TRUE][2] ELSE Undefined
MapSet(m, k, v) ==
    IF MapHas(m, k)
    THEN [i \in 1..Len(m) |-> IF m[i][1] = k THEN <<k, v>> ELSE m[i]]
    ELSE Append(m, <<k, v>>)
\* `(m.get(k) || 0)`: an absent key reads undefined, which is falsy.
GetOr0(m, k) == IF MapHas(m, k) THEN MapGet(m, k) ELSE 0

\* Property read of a document: undefined when the document has no such field.
Field(row, f) == IF f \in DOMAIN row THEN row[f] ELSE Undefined

\* `obj[k] = v` on a Record<string, number>.
AssignKey(obj, k, v) == [x \in DOMAIN obj \cup {k} |-> IF x = k THEN v ELSE obj[x]]
EmptyRecord == [x \in {} |-> 0]

Range(s) == {s[i] : i \in 1..Len(s)}

\* uuidv4() for a row about to enter `rows` of collection `name`: an identifier
\* that no stored row of any collection carries.
UuidV4(name, rows) == <<name, Len(rows) + 1>>

-----------------------------------------------------------------------------
(* Request inputs of the model: the values the callers send. *)

Carriers == {<<"A">>, <<"A", "|", "B">>}
Vehicles == {<<"V1">>, <<"V2">>}
SeriesNames == {<<"S1">>, <<"S2">>}
Hubs == {<<"H1">>, <<"H2">>}
Blank == {EmptyStr, <<" ">>, Undefined}

KeyA == <<"vehicles", "/", "a", ".", "jpg">>

\* Bodies of POST /travel-pictures, /link-series and /transit-hubs/link.
AggPictureBodies ==
    [carrier : Carriers, vehicle : Vehicles, url : {KeyA}]
      \cup [carrier : Blank, vehicle : {<<"V1">>}, url : {KeyA}]
      \cup [carrier : {<<"A">>}, vehicle : {EmptyStr}, url : {KeyA}]
AggSeriesBodies ==
    [vehicle : Vehicles, series : SeriesNames]
      \cup [vehicle : {EmptyStr, Undefined}, series : {<<"S1">>}]
      \cup [vehicle : {<<"V1">>}, series : {EmptyStr}]
AggMediaBodies ==
    [transit_hub : Hubs, url : {KeyA}] \cup [transit_hub : {EmptyStr}, url : {KeyA}]

\* Arguments of the counting calls the routes make: collection, field, ID list.
CountCalls ==
    ({"pictures"} \X {"carrier"} \X
        {<<>>, << <<"A">> >>, << <<"A">>, <<"B">> >>, << <<"B">> >>})
      \cup ({"pictures"} \X {"vehicle"} \X
        {<<>>, << <<"V1">>, <<"V2">> >>, << <<"V2">>, <<"V2">> >>})
      \cup ({"transitHubPictures"} \X {"transit_hub"} \X
        {<<>>, << <<"H1">> >>, << <<"H2">>, <<"H1">> >>})

-----------------------------------------------------------------------------
(* utils/helpers *)

\* validateRequiredFields: the first missing field, in the order given, or none.
ValidateRequiredFields(fields) ==
    \A i \in 1..Len(fields) : ~(Falsy(fields[i]) \/ Trim(fields[i]) = EmptyStr)

\* collection.aggregate([{$match: {[f]: {$in: ids}}}, {$group: {_id: `$f`, count: {$sum: 1}}}]):
\* one pass over the rows, a group per distinct value met, in the order first met.
RECURSIVE GroupCount(_, _, _, _, _)
GroupCount(rows, fieldName, entityIds, i, groups) ==
    IF i > Len(rows) THEN groups
    ELSE LET v == Field(rows[i], fieldName) IN
         IF v \in Range(entityIds)
         THEN GroupCount(rows, fieldName, entityIds, i + 1,
                         MapSet(groups, v, GetOr0(groups, v) + 1))
         ELSE GroupCount(rows, fieldName, entityIds, i + 1, groups)
\* The pipeline without its $match stage: every row is grouped.
AggregateUnmatched(rows, fieldName, entityIds) ==
    GroupCount(rows, fieldName, [i \in 1..Len(rows) |-> Field(rows[i], fieldName)], 1, <<>>)
Aggregate(rows, fieldName, entityIds) == GroupCount(rows, fieldName, entityIds, 1, <<>>)

\* for (const result of results) counts[result._id] = result.count
RECURSIVE CountsOf(_, _, _)
CountsOf(results, i, counts) ==
    IF i > Len(results) THEN counts
    ELSE CountsOf(results, i + 1, AssignKey(counts, results[i][1], results[i][2]))

\* getPictureCountsForEntities / getPictureCountsForVehicles, the store answering.
GetPictureCountsForEntities(rows, entityIds, fieldName) ==
    IF Len(entityIds) = 0 THEN EmptyRecord
    ELSE CountsOf(Aggregate(rows, fieldName, entityIds), 1, EmptyRecord)

\* A call that would ask the store for each ID in turn.
CountStoreRequestsPerId(entityIds) == Len(entityIds)
\* The call without its early return: the pipeline is always sent.
CountStoreRequestsAlways(entityIds) == 1
\* The aggregation requests that call sends to the store.
CountStoreRequests(entityIds) == IF Len(entityIds) = 0 THEN 0 ELSE 1

-----------------------------------------------------------------------------
(* routes/pictures: the derived tables *)

\* `${a}|${b}`
JoinKey(a, b) == a \o <<"|">> \o b

\* A map that would keep each series of a vehicle once, however many rows link it.
RECURSIVE BuildVehicleToSeriesSets(_, _, _)
BuildVehicleToSeriesSets(seriesData, i, m) ==
    IF i > Len(seriesData) THEN m
    ELSE LET s == seriesData[i]
             m1 == IF ~MapHas(m, s.vehicle) THEN MapSet(m, s.vehicle, <<>>) ELSE m
             seriesList == MapGet(m1, s.vehicle)
         IN BuildVehicleToSeriesSets(seriesData, i + 1,
                IF s.series \in Range(seriesList) THEN m1
                ELSE MapSet(m1, s.vehicle, Append(seriesList, s.series)))
\* for (const s of seriesData): vehicle -> the series of its rows, in row order.
RECURSIVE BuildVehicleToSeriesMap(_, _, _)
BuildVehicleToSeriesMap(seriesData, i, m) ==
    IF i > Len(seriesData) THEN m
    ELSE LET s == seriesData[i]
             m1 == IF ~MapHas(m, s.vehicle) THEN MapSet(m, s.vehicle, <<>>) ELSE m
         IN BuildVehicleToSeriesMap(seriesData, i + 1,
                MapSet(m1, s.vehicle, Append(MapGet(m1, s.vehicle), s.series)))

\* for (const series of seriesList): one increment per entry of the list.
RECURSIVE CountSeriesList(_, _, _, _)
CountSeriesList(carrier, seriesList, j, aggregation) ==
    IF j > Len(seriesList) THEN aggregation
    ELSE LET key == JoinKey(carrier, seriesList[j])
         IN CountSeriesList(carrier, seriesList, j + 1,
                MapSet(aggregation, key, GetOr0(aggregation, key) + 1))

\* A loop that would count a picture of a vehicle without series rows under an
\* undefined series instead of skipping it.
RECURSIVE AggregatePicturesUnskipped(_, _, _, _)
AggregatePicturesUnskipped(pictures, vehicleToSeriesMap, i, aggregation) ==
    IF i > Len(pictures) THEN aggregation
    ELSE LET pic == pictures[i]
             seriesList == IF MapHas(vehicleToSeriesMap, pic.vehicle)
                           THEN MapGet(vehicleToSeriesMap, pic.vehicle)
                           ELSE <<Undefined>>
         IN AggregatePicturesUnskipped(pictures, vehicleToSeriesMap, i + 1,
                CountSeriesList(pic.carrier, seriesList, 1, aggregation))
\* for (const pic of pictures): pictures of a vehicle without series rows are skipped.
RECURSIVE AggregatePictures(_, _, _, _)
AggregatePictures(pictures, vehicleToSeriesMap, i, aggregation) ==
    IF i > Len(pictures) THEN aggregation
    ELSE LET pic == pictures[i] IN
         IF MapHas(vehicleToSeriesMap, pic.vehicle)
         THEN AggregatePictures(pictures, vehicleToSeriesMap, i + 1,
                  CountSeriesList(pic.carrier, MapGet(vehicleToSeriesMap, pic.vehicle),
                                  1, aggregation))
         ELSE AggregatePictures(pictures, vehicleToSeriesMap, i + 1, aggregation)

\* const [carrier, series] = key.split('|'); result.push({carrier, series, count})
SeriesRowOfEntry(entry) ==
    LET parts == Split(entry[1], "|")
    IN [carrier |-> At(parts, 1), series |-> At(parts, 2), count |-> entry[2]]

aggregatePictureData(pictures, seriesData) ==
    LET vehicleToSeriesMap == BuildVehicleToSeriesMap(seriesData, 1, <<>>)
        aggregation == AggregatePictures(pictures, vehicleToSeriesMap, 1, <<>>)
    IN [i \in 1..Len(aggregation) |-> SeriesRowOfEntry(aggregation[i])]

\* for (const picture of pictures): one increment per picture, under the joined key.
RECURSIVE CountPairs(_, _, _)
CountPairs(pictures, i, counts) ==
    IF i > Len(pictures) THEN counts
    ELSE LET key == JoinKey(pictures[i].carrier, pictures[i].vehicle)
         IN CountPairs(pictures, i + 1, MapSet(counts, key, GetOr0(counts, key) + 1))

\* const [carrier, vehicle] = key.split('|'); result.push({carrier, vehicle, count})
PairRowOfEntry(entry) ==
    LET parts == Split(entry[1], "|")
    IN [carrier |-> At(parts, 1), vehicle |-> At(parts, 2), count |-> entry[2]]

convertToTravelPictureTable(pictures) ==
    LET counts == CountPairs(pictures, 1, <<>>)
    IN [i \in 1..Len(counts) |-> PairRowOfEntry(counts[i])]

-----------------------------------------------------------------------------
(* Handlers.  A handler that awaits nothing but the document store is one  *)
(* step; `ok` is whether the store answers or the request fails.           *)

NoCall == lpc = "idle"

\* A handler that lists nothing: no listImages frame, no page request.
NoListing ==
    /\ lpc' = "idle"
    /\ caller' = "none"
    /\ bucketName' = EmptyStr
    /\ folderPrefix' = EmptyStr
    /\ continuationToken' = Undefined
    /\ s3Images' = <<>>
    /\ s3Reqs' = 0
    /\ s3Failed' = FALSE
    /\ cancelledAt' = 0
    /\ s3Responses' = 0
    /\ linkedPictures' = <<>>

\* The admin client works from the unlinked list it was last shown.
NoClient == [domain |-> "none", list |-> <<>>, since |-> {},
             hadList |-> FALSE, before |-> <<>>, linked |-> {}]
ClientAfterLink(domain, url, stored) ==
    IF stored /\ client.domain = domain
    THEN [client EXCEPT !.since = @ \cup {url}]
    ELSE client

Response(op, status, body) == [op |-> op, status |-> status, body |-> body]

\* The collections of entities; a row of one of them is created with an
\* identifier of its own and can be deleted.
EntityCollections == {"carriers", "vehicles", "transitHubs", "regions"}

\* No HTTP request has been received.
NoRequest == [backend |-> "none", route |-> "none", authorization |-> <<>>]

\* The frame of a call: its position and its local variables.  No call runs.
CallIds == 1..MaxCalls
NoFrame ==
    [kind |-> "none", pc |-> "idle", bucketName |-> EmptyStr, folderPrefix |-> EmptyStr,
     continuationToken |-> Undefined, s3Images |-> <<>>, linkedPictures |-> <<>>,
     pictures |-> <<>>, result |-> <<>>, instants |-> {}]
NoCalls == [c \in CallIds |-> NoFrame]

\* linkPhotoToTravel
LinkPhotoToTravel(bodies, max) ==
    \E body \in bodies, ok \in BOOLEAN :
      LET picture == [_id |-> UuidV4("pictures", picturesCollection), carrier |-> body.carrier,
                      vehicle |-> body.vehicle, url |-> body.url]
      IN /\ NoCall
         /\ Len(picturesCollection) < max
         /\ client' = ClientAfterLink("travels", picture.url,
                ok /\ ValidateRequiredFields(<<picture.carrier, picture.url, picture.vehicle>>))
         /\ IF ~ValidateRequiredFields(<<picture.carrier, picture.url, picture.vehicle>>)
            THEN /\ resp' = Response("linkPhotoToTravel", 400, <<>>)
                 /\ storeReqs' = 0
                 /\ storeFailed' = FALSE
                 /\ UNCHANGED picturesCollection
            ELSE /\ storeReqs' = 1
                 /\ storeFailed' = ~ok
                 /\ IF ok
                    THEN /\ picturesCollection' = Append(picturesCollection, picture)
                         /\ resp' = Response("linkPhotoToTravel", 200, picture.url)
                    ELSE /\ resp' = Response("linkPhotoToTravel", 500, <<>>)
                         /\ UNCHANGED picturesCollection
         /\ NoListing
         /\ UNCHANGED <<seriesCollection, transitHubPicturesCollection, objectStore>>
         /\ UNCHANGED <<entityVars, request, calls>>

\* linkSeriesToVehicle, for bodies drawn from `bodies` and at most `max` rows.
LinkSeries(bodies, max) ==
    \E body \in bodies, ok \in BOOLEAN :
      LET seriesLink == [_id |-> UuidV4("series", seriesCollection),
                         vehicle |-> body.vehicle, series |-> body.series]
      IN /\ NoCall
         /\ Len(seriesCollection) < max
         /\ UNCHANGED client
         /\ IF Falsy(seriesLink.series) \/ Falsy(seriesLink.vehicle)
            THEN /\ resp' = Response("linkSeriesToVehicle", 400, <<>>)
                 /\ storeReqs' = 0
                 /\ storeFailed' = FALSE
                 /\ UNCHANGED seriesCollection
            ELSE /\ storeReqs' = 1
                 /\ storeFailed' = ~ok
                 /\ IF ok
                    THEN /\ seriesCollection' = Append(seriesCollection, seriesLink)
                         /\ resp' = Response("linkSeriesToVehicle", 200, seriesLink.series)
                    ELSE /\ resp' = Response("linkSeriesToVehicle", 500, <<>>)
                         /\ UNCHANGED seriesCollection
         /\ NoListing
         /\ UNCHANGED <<picturesCollection, transitHubPicturesCollection, objectStore>>
         /\ UNCHANGED <<entityVars, request, calls>>

LinkSeriesToVehicle == LinkSeries(AggSeriesBodies, MaxSeries)

\* linkPhotoToTransitHub
LinkPhotoToTransitHub(bodies) ==
    \E body \in bodies, ok \in BOOLEAN :
      LET transitHubMedia == [_id |-> UuidV4("transitHubPictures", transitHubPicturesCollection),
                              transit_hub |-> body.transit_hub, url |-> body.url]
      IN /\ NoCall
         /\ Len(transitHubPicturesCollection) < MaxMedia
         /\ client' = ClientAfterLink("transit-hubs", transitHubMedia.url,
                ok /\ ~(Falsy(transitHubMedia.transit_hub) \/ Falsy(transitHubMedia.url)))
         /\ IF Falsy(transitHubMedia.transit_hub) \/ Falsy(transitHubMedia.url)
            THEN /\ resp' = Response("linkPhotoToTransitHub", 400, <<>>)
                 /\ storeReqs' = 0
                 /\ storeFailed' = FALSE
                 /\ UNCHANGED transitHubPicturesCollection
            ELSE /\ storeReqs' = 1
                 /\ storeFailed' = ~ok
                 /\ IF ok
                    THEN /\ transitHubPicturesCollection' =
                              Append(transitHubPicturesCollection, transitHubMedia)
                         /\ resp' = Response("linkPhotoToTransitHub", 200, transitHubMedia.url)
                    ELSE /\ resp' = Response("linkPhotoToTransitHub", 500, <<>>)
                         /\ UNCHANGED transitHubPicturesCollection
         /\ NoListing
         /\ UNCHANGED <<picturesCollection, seriesCollection, objectStore>>
         /\ UNCHANGED <<entityVars, request, calls>>

Collection(name) ==
    IF name = "pictures" THEN picturesCollection ELSE transitHubPicturesCollection

\* A call of getPictureCountsForEntities(collection, entityIds, fieldName); the
\* response keeps the arguments beside the outcome.
GetPictureCounts ==
    \E call \in CountCalls, ok \in BOOLEAN :
      LET entityIds == call[3]
          reqs == CountStoreRequests(entityIds)
      IN /\ NoCall
         /\ storeReqs' = reqs
         /\ storeFailed' = (reqs > 0 /\ ~ok)
         /\ resp' = IF reqs > 0 /\ ~ok
                    THEN Response("getPictureCounts", "thrown", <<>>)
                    ELSE [op |-> "getPictureCounts", status |-> "returned", body |-> call,
                          counts |-> GetPictureCountsForEntities(
                                         Collection(call[1]), entityIds, call[2])]
         /\ NoListing
         /\ UNCHANGED <<storeVars, objectStore, client, entityVars, request, calls>>

\* getTravelPicturesSeries: both scans, then the table.
GetTravelPicturesSeries ==
    \E ok \in {0, 1, 2} :    \* the scan that fails, 0 for none
      /\ NoCall
      /\ storeReqs' = IF ok = 1 THEN 1 ELSE 2
      /\ storeFailed' = (ok # 0)
      /\ resp' = IF ok = 0
                 THEN Response("getTravelPicturesSeries", 200,
                               aggregatePictureData(picturesCollection, seriesCollection))
                 ELSE Response("getTravelPicturesSeries", 500, <<>>)
      /\ NoListing
      /\ UNCHANGED <<storeVars, objectStore, client, entityVars, request, calls>>

\* A scan that would take the rows it reads out of the collection.
FindConsumes(rows) == <<>>
\* find({}).toArray() reads: the collection holds afterwards what it held.
FindLeaves(rows) == rows

\* getTravelPicturesTable: the scan, then the table.
GetTravelPicturesTable ==
    \E ok \in BOOLEAN :
      /\ NoCall
      /\ storeReqs' = 1
      /\ storeFailed' = ~ok
      /\ resp' = IF ok
                 THEN Response("getTravelPicturesTable", 200,
                               convertToTravelPictureTable(picturesCollection))
                 ELSE Response("getTravelPicturesTable", 500, <<>>)
      /\ picturesCollection' = FindLeaves(picturesCollection)
      /\ NoListing
      /\ UNCHANGED <<seriesCollection, transitHubPicturesCollection, objectStore, client,
                     entityVars, request, calls>>

-----------------------------------------------------------------------------
(* The aggregation service: link requests fill the store, count and table  *)
(* requests read it.                                                       *)

InitStore ==
    /\ picturesCollection = <<>>
    /\ seriesCollection = <<>>
    /\ transitHubPicturesCollection = <<>>
    /\ carriersCollection = <<>>
    /\ vehiclesCollection = <<>>
    /\ transitHubsCollection = <<>>
    /\ regionsCollection = <<>>
    /\ regionTransitHubsCollection = <<>>
    /\ uuidsIssued = [name \in EntityCollections |-> 0]

InitIdle ==
    /\ resp = Response("none", 0, <<>>)
    /\ storeReqs = 0
    /\ storeFailed = FALSE
    /\ lpc = "idle"
    /\ caller = "none"
    /\ bucketName = EmptyStr
    /\ folderPrefix = EmptyStr
    /\ continuationToken = Undefined
    /\ s3Images = <<>>
    /\ s3Reqs = 0
    /\ s3Failed = FALSE
    /\ linkedPictures = <<>>
    /\ cancelledAt = 0
    /\ s3Responses = 0
    /\ client = NoClient
    /\ request = NoRequest
    /\ calls = NoCalls

InitAgg ==
    /\ InitStore
    /\ InitIdle
    /\ objectStore = <<>>

\* Counting: pictures and transit-hub media are linked, counts are asked for.
NextCounts ==
    \/ LinkPhotoToTravel(AggPictureBodies, MaxPictures)
    \/ LinkPhotoToTransitHub(AggMediaBodies)
    \/ GetPictureCounts

SpecCounts == InitAgg /\ [][NextCounts]_vars

\* Carrier x series: pictures and series rows are linked, the table is asked for.
NextSeries ==
    \/ LinkPhotoToTravel(AggPictureBodies, MaxPictures)
    \/ LinkSeriesToVehicle
    \/ GetTravelPicturesSeries

SpecSeries == InitAgg /\ [][NextSeries]_vars

\* Carrier x vehicle: pictures are linked, the table is asked for.
NextTable ==
    \/ LinkPhotoToTravel(AggPictureBodies, MaxPictures)
    \/ GetTravelPicturesTable

SpecTable == InitAgg /\ [][NextTable]_vars

-----------------------------------------------------------------------------
(* utils/s3: listImages and the object store it pages through. *)

imageExtensions ==
    {<<".", e>> : e \in {"jpg", "jpeg", "png", "gif", "bmp", "webp", "svg", "tiff",
                          "heic", "avif", "ico", "jxl", "heif", "raw"}}

\* String.prototype.toLowerCase, symbol by symbol.
LowerSymbol(c) ==
    CASE c = "JPG" -> "jpg"
      [] c = "PNG" -> "png"
      [] c = "Jpeg" -> "jpeg"
      [] OTHER -> c
\* A filter that would compare the extension as written.
ToLowerCaseNot(str) == str
ToLowerCase(str) == [i \in 1..Len(str) |-> LowerSymbol(str[i])]

\* path.extname (posix): trailing slashes are dropped, the last segment is the
\* base name, and the extension runs from its last '.' to its end; there is none
\* when no '.' is there, when the '.' opens the base name, or for "..".
RECURSIVE StripSlashes(_)
StripSlashes(str) ==
    IF str # <<>> /\ str[Len(str)] = "/" THEN StripSlashes(SubSeq(str, 1, Len(str) - 1))
    ELSE str
MaxOf(S) == CHOOSE x \in S : \A y \in S : y <= x
BaseName(str) ==
    LET stripped == StripSlashes(str)
        slashes == {i \in 1..Len(stripped) : stripped[i] = "/"}
    IN IF slashes = {} THEN stripped
       ELSE SubSeq(stripped, MaxOf(slashes) + 1, Len(stripped))
ExtName(str) ==
    LET base == BaseName(str)
        dots == {i \in 1..Len(base) : base[i] = "."}
    IN IF dots = {} \/ MaxOf(dots) = 1 \/ base = <<".", ".">> THEN EmptyStr
       ELSE SubSeq(base, MaxOf(dots), Len(base))

isImageFile(filename) ==
    IF Falsy(filename) THEN FALSE
    ELSE ToLowerCase(ExtName(filename)) \in imageExtensions

StartsWith(str, prefix) ==
    Len(prefix) <= Len(str) /\ SubSeq(str, 1, Len(prefix)) = prefix

\* The keys of a bucket under a prefix, in listing order.
KeysUnder(bucket, prefix) ==
    LET Under(k) == StartsWith(k, prefix) IN SelectSeq(objectStore[bucket], Under)

\* ListObjectsV2: the page of at most n keys that follows the continuation token
\* (<<"token", i>> resumes at the i-th key); Contents is absent on an empty page,
\* NextContinuationToken on the last one.
ListObjectsV2(bucket, prefix, token, n) ==
    LET keys == KeysUnder(bucket, prefix)
        first == IF token = Undefined THEN 1 ELSE token[2]
        last == IF first + n - 1 < Len(keys) THEN first + n - 1 ELSE Len(keys)
        contents == IF last < first THEN <<>>
                    ELSE [x \in {"Contents"} |-> SubSeq(keys, first, last)]
        next == IF last < Len(keys)
                THEN [x \in {"NextContinuationToken"} |-> <<"token", last + 1>>]
                ELSE <<>>
    IN contents @@ next

\* if (response.Contents) for (const object of response.Contents) ...
RECURSIVE PushKeys(_, _, _)
PushKeys(contents, i, images) ==
    IF i > Len(contents) THEN images
    ELSE LET key == contents[i]
         IN PushKeys(contents, i + 1,
                IF ~Falsy(key) /\ isImageFile(key) THEN Append(images, key) ELSE images)
PushImages(response, images) ==
    IF "Contents" \in DOMAIN response THEN PushKeys(response.Contents, 1, images)
    ELSE images

\* A validation that would let an empty prefix through.
ArgumentsCheckBucketOnly(bucket, prefix) ==
    IF Falsy(bucket) THEN "Bucket name cannot be empty" ELSE "ok"
\* The input validation: the error thrown, or none.
ArgumentsCheck(bucket, prefix) ==
    IF Falsy(bucket) THEN "Bucket name cannot be empty"
    ELSE IF Falsy(prefix) THEN "Folder prefix cannot be empty"
    ELSE "ok"

\* A loop that would go on unless the token is absent: `!== undefined`.
WhileConditionDefined(token) == token # Undefined
\* A loop that would also stop once the caller has gone away.
WhileConditionUnlessCancelled(token) == ~Falsy(token) /\ ~cancelled
\* A loop that never asks for a second page.
WhileConditionNever(token) == FALSE
\* } while (continuationToken)
WhileCondition(token) == ~Falsy(token)

\* A loop that would resume one key further than the response says.
NextTokenSkipping(response) ==
    IF "NextContinuationToken" \in DOMAIN response
    THEN <<"token", response.NextContinuationToken[2] + 1>>
    ELSE Undefined
\* continuationToken = response.NextContinuationToken
NextToken(response) == Field(response, "NextContinuationToken")

\* A catch block that would send the failed request once more.
PageRequestsAfterRetry(sent) == sent + 1
\* The catch block sends nothing: the page requests sent stay as they are.
PageRequestsAfterFailure(sent) == sent

\* A catch block that would hand back the keys gathered so far.
ListingFailurePartial(images) == [status |-> "returned", body |-> images]
\* catch (error) { throw new Error(`Failed to list S3 images: ...`) }
ListingFailure(images) == [status |-> "thrown", body |-> "Failed to list S3 images"]

\* A scan that would miss the row linked last.
ExtractUrlsButLast(rows) == [i \in 1..(Len(rows) - 1) |-> rows[i].url]
\* extractTravelPictureUrls / getTransitHubPicturesInternal: pictures.map((p) => p.url)
ExtractUrls(rows) == [i \in 1..Len(rows) |-> rows[i].url]

\* A handler that would answer with every listed key.
UnlinkedUnfiltered(linkedUrls, s3Pictures) == s3Pictures
\* unlinked = s3Pictures.filter((pic) => !linked.has(pic))
Unlinked(linkedUrls, s3Pictures) ==
    LET NotLinked(pic) == pic \notin Range(linkedUrls) IN SelectSeq(s3Pictures, NotLinked)

\* The client is shown a list: it keeps the one it had of the same domain, and
\* what it linked in between, beside the new one.
ClientShown(domain, unlinked) ==
    [domain |-> domain, list |-> unlinked, since |-> {},
     hadList |-> client.domain = domain,
     before |-> IF client.domain = domain THEN client.list ELSE <<>>,
     linked |-> IF client.domain = domain THEN client.since ELSE {}]

\* A catch block that would answer with an empty list.
GetUnlinkedCatchEmpty(domain) == Response(domain, 200, <<>>)
\* catch (error) { return c.json({ error: 'Failed to get unlinked pictures' }, 500) }
GetUnlinkedCatch(domain) == Response(domain, 500, "Failed to get unlinked pictures")

\* The end of a listImages call: the outcome reaches whoever awaits it.  A
\* direct caller has it as is; getUnlinked* answers 200 with the unlinked keys,
\* or 500 from its catch block.
ListImagesEnds(outcome) ==
    /\ lpc' = "idle"
    /\ IF caller = "direct"
       THEN /\ resp' = Response("listImages", outcome.status, outcome.body)
            /\ UNCHANGED client
       ELSE IF outcome.status = "returned"
       THEN /\ resp' = Response(caller, 200, Unlinked(linkedPictures, outcome.body))
            /\ client' = ClientShown(caller, Unlinked(linkedPictures, outcome.body))
       ELSE /\ resp' = GetUnlinkedCatch(caller)
            /\ UNCHANGED client

\* The call of listImages(bucket, prefix) up to its first await: the validation,
\* then the first request, sent without a continuation token.
ListImagesBegins(who, bucket, prefix) ==
    /\ caller' = who
    /\ bucketName' = bucket
    /\ folderPrefix' = prefix
    /\ s3Images' = <<>>
    /\ continuationToken' = Undefined
    /\ s3Failed' = FALSE
    /\ cancelledAt' = 0
    /\ s3Responses' = 0
    /\ IF ArgumentsCheck(bucket, prefix) # "ok"
       THEN /\ s3Reqs' = 0
            /\ lpc' = "idle"
            /\ IF who = "direct"
               THEN resp' = Response("listImages", "thrown", ArgumentsCheck(bucket, prefix))
               ELSE resp' = GetUnlinkedCatch(who)
       ELSE /\ s3Reqs' = 1
            /\ lpc' = "awaiting"
            /\ UNCHANGED resp

\* listImages called on its own.
ListImages ==
    \E bucket \in {EmptyStr, <<"milememory">>}, prefix \in {EmptyStr, <<"vehicles", "/">>} :
      /\ NoCall
      /\ ListImagesBegins("direct", bucket, prefix)
      /\ storeReqs' = 0
      /\ storeFailed' = FALSE
      /\ linkedPictures' = <<>>
      /\ UNCHANGED <<storeVars, objectStore, client, entityVars, request, calls>>

\* A page request is answered: its image keys are pushed, and the loop either
\* sends the next request with the token of this response or returns.
PageArrives ==
    \E n \in 1..MaxObjects :
      LET response == ListObjectsV2(bucketName, folderPrefix, continuationToken, n)
          images == PushImages(response, s3Images)
          next == NextToken(response)
      IN /\ lpc = "awaiting"
         /\ bucketName \in DOMAIN objectStore
         /\ s3Images' = images
         /\ continuationToken' = next
         /\ s3Responses' = s3Responses + 1
         /\ UNCHANGED <<entityVars, request, calls>>
         /\ IF WhileCondition(next)
            THEN /\ s3Reqs' = s3Reqs + 1
                 /\ UNCHANGED <<lpc, resp, client>>
            ELSE /\ ListImagesEnds([status |-> "returned", body |-> images])
                 /\ UNCHANGED s3Reqs
         /\ UNCHANGED <<storeVars, objectStore, storeReqs, storeFailed, caller,
                        bucketName, folderPrefix, s3Failed, linkedPictures, cancelledAt>>

\* A page request fails (the transport, the credentials, a bucket that does not
\* exist): s3Client.send rejects and the catch block rethrows.
PageFails ==
    /\ lpc = "awaiting"
    /\ s3Failed' = TRUE
    /\ s3Responses' = s3Responses + 1
    /\ ListImagesEnds(ListingFailure(s3Images))
    /\ UNCHANGED <<entityVars, request, calls>>
    /\ s3Reqs' = PageRequestsAfterFailure(s3Reqs)
    /\ UNCHANGED <<storeVars, objectStore, storeReqs, storeFailed, caller, bucketName,
                   folderPrefix, continuationToken, s3Images, linkedPictures,
                   cancelledAt>>

\* The caller of the running call goes away (the client disconnects, its
\* deadline passes).  listImages takes no signal and reads none.
Cancel ==
    /\ lpc = "awaiting"
    /\ ~cancelled
    /\ cancelledAt' = s3Reqs
    /\ UNCHANGED <<storeVars, objectStore, resp, storeReqs, storeFailed, lpc, caller, bucketName,
                   folderPrefix, continuationToken, s3Images, s3Reqs, s3Failed,
                   linkedPictures, client, s3Responses, entityVars, request, calls>>

\* getUnlinkedTravelPictures / getUnlinkedTransitHubPictures up to the first page
\* request: the scan of the linked URLs (`ok`: the store answers), then the call
\* of listImages with the domain's bucket and prefix.
GetUnlinked(domain, rows, bucket, prefix) ==
    \E ok \in BOOLEAN :
      /\ NoCall
      /\ storeReqs' = 1
      /\ storeFailed' = ~ok
      /\ IF ok
         THEN /\ linkedPictures' = ExtractUrls(rows)
              /\ ListImagesBegins(domain, bucket, prefix)
              /\ UNCHANGED client
         ELSE /\ resp' = GetUnlinkedCatch(domain)
              /\ NoListing
              /\ UNCHANGED client
      /\ UNCHANGED <<storeVars, objectStore, entityVars, request, calls>>

GetUnlinkedTravelPictures ==
    GetUnlinked("travels", picturesCollection, <<"milememory">>, <<"vehicles", "/">>)

GetUnlinkedTransitHubPictures ==
    GetUnlinked("transit-hubs", transitHubPicturesCollection,
                <<"flight-history">>, <<"flights", "/">>)

-----------------------------------------------------------------------------
(* The object store.  Each bucket holds files of its own folder and one    *)
(* object outside it; the store lists a bucket's keys in a fixed order.    *)

FileNames == {<<"a", ".", "jpg">>, <<"b", ".", "PNG">>, <<"c", ".", "txt">>}
Outside == <<"other", "/", "d", ".", "jpg">>

\* Sequences of distinct elements of S, of at most n elements.
RECURSIVE DistinctSeqs(_, _)
DistinctSeqs(S, n) ==
    IF n = 0 THEN {<<>>}
    ELSE LET shorter == DistinctSeqs(S, n - 1)
         IN shorter \cup UNION {{Append(q, x) : x \in S \ Range(q)} : q \in shorter}

InBucket(prefix, files) ==
    [i \in 1..Len(files) |-> IF files[i] = Outside THEN Outside ELSE prefix \o files[i]]

ObjectStores(files) ==
    {(<<"milememory">> :> InBucket(<<"vehicles", "/">>, q))
        @@ (<<"flight-history">> :> InBucket(<<"flights", "/">>, q)) :
     q \in DistinctSeqs(files, MaxObjects)}

\* listImages on its own, over any listing, with callers that go away.
InitList ==
    /\ InitStore
    /\ InitIdle
    /\ objectStore \in ObjectStores(FileNames \cup {Outside})

NextList ==
    \/ ListImages
    \/ PageArrives
    \/ PageFails
    \/ Cancel

Spec == InitList /\ [][NextList]_vars

\* Reconciliation: photos are linked and the unlinked ones asked for, one
\* request at a time.
UrlsOf(prefix) == {prefix \o <<"a", ".", "jpg">>, prefix \o <<"b", ".", "PNG">>}
RecPictureBodies ==
    [carrier : {<<"A">>}, vehicle : {<<"V1">>}, url : UrlsOf(<<"vehicles", "/">>)]
      \cup [carrier : {<<"A">>}, vehicle : {<<"V1">>}, url : {EmptyStr}]
RecMediaBodies ==
    [transit_hub : {<<"H1">>}, url : {<<"flights", "/", "a", ".", "jpg">>, Undefined}]

InitUnlinked ==
    /\ InitStore
    /\ InitIdle
    /\ objectStore \in ObjectStores(FileNames)

NextUnlinked ==
    \/ LinkPhotoToTravel(RecPictureBodies, MaxLinks)
    \/ LinkPhotoToTransitHub(RecMediaBodies)
    \/ GetUnlinkedTravelPictures
    \/ GetUnlinkedTransitHubPictures
    \/ PageArrives
    \/ PageFails

SpecUnlinked == InitUnlinked /\ [][NextUnlinked]_vars

\* The extension filter: listings of keys with and without an extension, in
\* upper and lower case, of a file that is all extension, of a folder marker
\* and of a file in a folder whose name has a dot.
KeyNames ==
    {<<"a", ".", "jpg">>, <<"b", ".", "PNG">>, <<"c", ".", "txt">>, <<"noext">>,
     <<".", "jpg">>, <<"f", ".", "jpg", "/">>, <<"g", ".", "jpg", "/", "h">>,
     <<"m", ".", "x", ".", "Jpeg">>}

InitKeys ==
    /\ InitStore
    /\ InitIdle
    /\ objectStore \in ObjectStores(KeyNames)

NextKeys ==
    \/ ListImages
    \/ PageArrives

SpecKeys == InitKeys /\ [][NextKeys]_vars

\* The responses an object store can give to a page request: with keys or
\* without Contents, and with a continuation token, an empty one or none.
PageContents ==
    {<<>>} \cup {[x \in {"Contents"} |-> keys] :
                  keys \in {<<KeyA>>, <<<<"vehicles", "/", "b", ".", "PNG">>>>,
                            <<KeyA, <<"vehicles", "/", "c", ".", "txt">>>>}}
PageTokens ==
    {<<>>} \cup {[x \in {"NextContinuationToken"} |-> token] :
                  token \in {EmptyStr, <<"t1">>, <<"t2">>}}
PageResponses == {contents @@ next : contents \in PageContents, next \in PageTokens}

\* A page request is answered by a store that pages as it likes; its listing
\* has ended by the MaxPageRequests-th request at the latest.
PageAnswers ==
    \E response \in PageResponses :
      LET images == PushImages(response, s3Images)
          next == NextToken(response)
      IN /\ lpc = "awaiting"
         /\ s3Reqs >= MaxPageRequests => Falsy(Field(response, "NextContinuationToken"))
         /\ s3Images' = images
         /\ continuationToken' = next
         /\ s3Responses' = s3Responses + 1
         /\ UNCHANGED <<entityVars, request, calls>>
         /\ IF WhileCondition(next)
            THEN /\ s3Reqs' = s3Reqs + 1
                 /\ UNCHANGED <<lpc, resp, client>>
            ELSE /\ ListImagesEnds([status |-> "returned", body |-> images])
                 /\ UNCHANGED s3Reqs
         /\ UNCHANGED <<storeVars, objectStore, storeReqs, storeFailed, caller,
                        bucketName, folderPrefix, s3Failed, linkedPictures, cancelledAt>>

\* listImages against such a store; a request that was sent is settled in the
\* end, answered or failed.
NextPages ==
    \/ ListImages
    \/ PageAnswers
    \/ PageFails

SpecPages == InitAgg /\ [][NextPages]_vars /\ WF_vars(PageAnswers \/ PageFails)

\* The read operations beside the writes that fill the store: counts, both
\* tables and the unlinked travel pictures, one request at a time.
NextReads ==
    \/ LinkPhotoToTravel(RecPictureBodies, MaxLinks)
    \/ GetPictureCounts
    \/ GetTravelPicturesTable
    \/ GetTravelPicturesSeries
    \/ GetUnlinkedTravelPictures
    \/ PageArrives
    \/ PageFails

SpecReads == InitUnlinked /\ [][NextReads]_vars

-----------------------------------------------------------------------------
(* Calls that run at the same time.  Each call of an async function has its  *)
(* own local variables; a step is the call that an awaited response resumes. *)

\* What a step of one call leaves alone: the stores and the one-call frame.
besideCalls ==
    <<storeReqs, storeFailed, listVars, linkedPictures, client, request, entityVars>>

\* A listing that would push to one array declared outside the function.
ImagesShared(frames, c) == frames[1].s3Images
\* const s3Images: string[] = [] inside listImages: the array of this call.
ImagesOf(frames, c) == frames[c].s3Images

\* listImages('milememory', 'vehicles/') is called and sends its first request.
ListImagesCalled(c) ==
    /\ calls[c].pc = "idle"
    /\ calls' = [calls EXCEPT ![c] =
                    [NoFrame EXCEPT !.kind = "listImages", !.pc = "page",
                                    !.bucketName = <<"milememory">>,
                                    !.folderPrefix = <<"vehicles", "/">>]]
    /\ UNCHANGED <<storeVars, objectStore, resp, besideCalls>>

\* getUnlinkedTravelPictures is called and sends its scan of the pictures.
GetUnlinkedCalled(c) ==
    /\ calls[c].pc = "idle"
    /\ calls' = [calls EXCEPT ![c] = [NoFrame EXCEPT !.kind = "travels", !.pc = "scan"]]
    /\ UNCHANGED <<storeVars, objectStore, resp, besideCalls>>

\* The scan is answered: the call goes on to listImages('milememory', 'vehicles/').
ScanAnswered(c) ==
    /\ calls[c].pc = "scan"
    /\ calls' = [calls EXCEPT ![c] =
                    [@ EXCEPT !.linkedPictures = ExtractUrls(picturesCollection),
                              !.pc = "page",
                              !.bucketName = <<"milememory">>,
                              !.folderPrefix = <<"vehicles", "/">>]]
    /\ UNCHANGED <<storeVars, objectStore, resp, besideCalls>>

\* A page request of the call is answered.
PageAnswered(c) ==
    \E n \in 1..MaxObjects :
      LET frame == calls[c]
          response == ListObjectsV2(frame.bucketName, frame.folderPrefix,
                                    frame.continuationToken, n)
          images == PushImages(response, ImagesOf(calls, c))
          next == NextToken(response)
      IN /\ frame.pc = "page"
         /\ calls' = [calls EXCEPT ![c] =
                IF WhileCondition(next)
                THEN [frame EXCEPT !.s3Images = images, !.continuationToken = next]
                ELSE [frame EXCEPT !.s3Images = images, !.continuationToken = next,
                                   !.pc = "done",
                                   !.result = IF frame.kind = "listImages" THEN images
                                              ELSE Unlinked(frame.linkedPictures, images)]]
         /\ UNCHANGED <<storeVars, objectStore, resp, besideCalls>>

\* The carrier x series table once computed from what the store holds.
TableOf(pictures, seriesData) == aggregatePictureData(pictures, seriesData)

\* getTravelPicturesSeries is called and sends its scan of the pictures.
SeriesTableCalled(c) ==
    /\ calls[c].pc = "idle"
    /\ calls' = [calls EXCEPT ![c] =
                    [NoFrame EXCEPT !.kind = "getTravelPicturesSeries", !.pc = "pictures",
                                    !.instants = {TableOf(picturesCollection,
                                                          seriesCollection)}]]
    /\ UNCHANGED <<storeVars, objectStore, resp, besideCalls>>

\* const pictures = await picturesCollection.find({}).toArray(): the scan of the
\* pictures is answered and the scan of the series rows is sent.
PicturesAnswered(c) ==
    /\ calls[c].pc = "pictures"
    /\ calls' = [calls EXCEPT ![c] =
                    [@ EXCEPT !.pictures = picturesCollection, !.pc = "series"]]
    /\ UNCHANGED <<storeVars, objectStore, resp, besideCalls>>

\* const seriesData = await seriesCollection.find({}).toArray(): the scan of the
\* series rows is answered and the table computed.
SeriesAnswered(c) ==
    /\ calls[c].pc = "series"
    /\ calls' = [calls EXCEPT ![c] =
                    [@ EXCEPT !.result = aggregatePictureData(calls[c].pictures,
                                                              seriesCollection),
                              !.pc = "done"]]
    /\ UNCHANGED <<storeVars, objectStore, resp, besideCalls>>

\* The call returns its result to its caller.
CallReturns(c) ==
    /\ calls[c].pc = "done"
    /\ resp' = Response(calls[c].kind, 200, calls[c].result)
    /\ calls' = [calls EXCEPT ![c] = NoFrame]
    /\ UNCHANGED <<storeVars, objectStore, besideCalls>>

\* Stores that link requests have filled before the calls start.
ConcurrentPictures ==
    {<<>>,
     <<[_id |-> UuidV4("pictures", <<>>), carrier |-> <<"A">>, vehicle |-> <<"V1">>,
        url |-> KeyA]>>}
ConcurrentSeries ==
    {<<>>,
     <<[_id |-> UuidV4("series", <<>>), vehicle |-> <<"V1">>, series |-> <<"S1">>]>>}

InitConcurrent ==
    /\ InitIdle
    /\ picturesCollection \in ConcurrentPictures
    /\ seriesCollection \in ConcurrentSeries
    /\ transitHubPicturesCollection = <<>>
    /\ carriersCollection = <<>>
    /\ vehiclesCollection = <<>>
    /\ transitHubsCollection = <<>>
    /\ regionsCollection = <<>>
    /\ regionTransitHubsCollection = <<>>
    /\ uuidsIssued = [name \in EntityCollections |-> 0]
    /\ objectStore \in ObjectStores({<<"a", ".", "jpg">>, <<"b", ".", "PNG">>})

\* Listings, reconciliations and table calls run side by side on stores that
\* nothing writes.
NextConcurrent ==
    \E c \in CallIds :
      \/ ListImagesCalled(c)
      \/ GetUnlinkedCalled(c)
      \/ ScanAnswered(c)
      \/ PageAnswered(c)
      \/ SeriesTableCalled(c)
      \/ PicturesAnswered(c)
      \/ SeriesAnswered(c)
      \/ CallReturns(c)

SpecConcurrent == InitConcurrent /\ [][NextConcurrent]_vars

\* Each table call that runs keeps the tables of the store contents it has
\* lived through: the store now holds `pictures` and `seriesData`.
Observed(frames, pictures, seriesData) ==
    [c \in CallIds |->
        IF frames[c].pc \in {"pictures", "series"}
        THEN [frames[c] EXCEPT !.instants = @ \cup {TableOf(pictures, seriesData)}]
        ELSE frames[c]]

\* linkPhotoToTravel, with a complete body and the store answering, served
\* while table calls run.
LinkPhotoToTravelMeanwhile ==
    \E body \in [carrier : {<<"A">>}, vehicle : {<<"V1">>}, url : {KeyA}] :
      LET picture == [_id |-> UuidV4("pictures", picturesCollection),
                      carrier |-> body.carrier, vehicle |-> body.vehicle, url |-> body.url]
      IN /\ Len(picturesCollection) < MaxPictures
         /\ picturesCollection' = Append(picturesCollection, picture)
         /\ resp' = Response("linkPhotoToTravel", 200, picture.url)
         /\ calls' = Observed(calls, picturesCollection', seriesCollection)
         /\ UNCHANGED <<seriesCollection, transitHubPicturesCollection, objectStore,
                        besideCalls>>

\* linkSeriesToVehicle, likewise.
LinkSeriesToVehicleMeanwhile ==
    \E body \in [vehicle : {<<"V1">>}, series : {<<"S1">>}] :
      LET seriesLink == [_id |-> UuidV4("series", seriesCollection),
                         vehicle |-> body.vehicle, series |-> body.series]
      IN /\ Len(seriesCollection) < MaxSeries
         /\ seriesCollection' = Append(seriesCollection, seriesLink)
         /\ resp' = Response("linkSeriesToVehicle", 200, seriesLink.series)
         /\ calls' = Observed(calls, picturesCollection, seriesCollection')
         /\ UNCHANGED <<picturesCollection, transitHubPicturesCollection, objectStore,
                        besideCalls>>

\* A table call with link requests served in between its two scans.
NextInterleaved ==
    \/ SeriesTableCalled(1)
    \/ PicturesAnswered(1)
    \/ SeriesAnswered(1)
    \/ CallReturns(1)
    \/ LinkPhotoToTravelMeanwhile
    \/ LinkSeriesToVehicleMeanwhile

SpecInterleaved == InitAgg /\ [][NextInterleaved]_vars

-----------------------------------------------------------------------------
(* Entities: carriers, vehicles, transit hubs and regions are created,      *)
(* deleted and listed with the number of relation rows that name them.     *)

\* uuidv4() for a row about to enter an entity collection: rows of it may have
\* been deleted, the identifiers they had are not generated again.
UuidSymbols ==
    [carriers |-> <<"c1", "c2", "c3", "c4", "c5">>,
     vehicles |-> <<"v1", "v2", "v3", "v4", "v5">>,
     transitHubs |-> <<"h1", "h2", "h3", "h4", "h5">>,
     regions |-> <<"r1", "r2", "r3", "r4", "r5">>]
EntityUuidV4(name) == <<UuidSymbols[name][uuidsIssued[name] + 1]>>

EntityRows(name) ==
    CASE name = "carriers" -> carriersCollection
      [] name = "vehicles" -> vehiclesCollection
      [] name = "transitHubs" -> transitHubsCollection
      [] name = "regions" -> regionsCollection

\* Collection `name` holds `rows` next, the other entity collections what they hold.
EntityRowsBecome(name, rows) ==
    /\ carriersCollection' = IF name = "carriers" THEN rows ELSE carriersCollection
    /\ vehiclesCollection' = IF name = "vehicles" THEN rows ELSE vehiclesCollection
    /\ transitHubsCollection' = IF name = "transitHubs" THEN rows ELSE transitHubsCollection
    /\ regionsCollection' = IF name = "regions" THEN rows ELSE regionsCollection

\* The rows created so far.
RowsIssued ==
    uuidsIssued["carriers"] + uuidsIssued["vehicles"] + uuidsIssued["transitHubs"]
      + uuidsIssued["regions"] + Len(picturesCollection) + Len(seriesCollection)
      + Len(transitHubPicturesCollection) + Len(regionTransitHubsCollection)

\* Request bodies and path parameters.
CarrierBodies ==
    [name : {<<"n1">>, <<"n2">>}, iata : {<<"AA">>}, icao : {<<"AAL">>}]
      \cup [name : {<<"n1">>}, iata : {EmptyStr}, icao : {<<"AAL">>}]
      \cup [_id : {<<"c1">>}, name : {<<"n1">>}, iata : {<<"AA">>}, icao : {<<"AAL">>}]
VehicleBodies == [name : {<<"n1">>}]
TransitHubBodies == [name : {<<"n1">>}]
RegionBodies == [name : {<<"n1">>, Undefined}]
EntPictureBodies == [carrier : {<<"c1">>, <<"c2">>}, vehicle : {<<"v1">>}, url : {KeyA}]
EntMediaBodies == [transit_hub : {<<"h1">>}, url : {KeyA}]
RegionTransitHubBodies == [region : {<<"r1">>}, transit_hub : {<<"h1">>, EmptyStr}]
IdParams(name) == {<<UuidSymbols[name][1]>>, <<UuidSymbols[name][2]>>}

\* A handler that would keep the _id its request body carries.
AssignedIdUnlessSent(body, id) == IF "_id" \in DOMAIN body THEN body._id ELSE id
\* entity._id = id: whatever _id the body carries, the entity gets `id`.
AssignedId(body, id) == id

\* A handler that would write the entity first and check it afterwards.
RowsAfterLateRejection(rows, entity) == Append(rows, entity)
\* A handler that answers with an error before its write has sent nothing to
\* the store: the collection holds what it held.
RowsAfterRejection(rows, entity) == rows

\* The tail of postCarrier, postVehicle, createTransitHub and createRegion:
\* answered with `rejected` before the insert when it is not 0, else insertOne
\* under executeWithErrorHandling.
InsertEntity(name, op, entity, rejected, ok) ==
    /\ NoCall
    /\ RowsIssued < MaxRows
    /\ IF rejected # 0
       THEN /\ resp' = Response(op, rejected, <<>>)
            /\ storeReqs' = 0
            /\ storeFailed' = FALSE
            /\ EntityRowsBecome(name, RowsAfterRejection(EntityRows(name), entity))
            /\ UNCHANGED uuidsIssued
       ELSE /\ storeReqs' = 1
            /\ storeFailed' = ~ok
            /\ IF ok
               THEN /\ EntityRowsBecome(name, Append(EntityRows(name), entity))
                    /\ uuidsIssued' = [uuidsIssued EXCEPT ![name] = @ + 1]
                    /\ resp' = Response(op, 200, entity._id)
               ELSE /\ EntityRowsBecome(name, EntityRows(name))
                    /\ UNCHANGED uuidsIssued
                    /\ resp' = Response(op, 500, <<>>)
    /\ NoListing
    /\ UNCHANGED <<storeVars, regionTransitHubsCollection, objectStore, client, request, calls>>

\* postCarrier
PostCarrier ==
    \E body \in CarrierBodies, ok \in BOOLEAN :
      LET carrier == AssignKey(body, "_id", AssignedId(body, EntityUuidV4("carriers")))
      IN InsertEntity("carriers", "postCarrier", carrier,
             IF ValidateRequiredFields(<<carrier.name, carrier.iata, carrier.icao>>)
             THEN 0 ELSE 400, ok)

\* postVehicle
PostVehicle ==
    \E body \in VehicleBodies, ok \in BOOLEAN :
      LET vehicle == [_id |-> EntityUuidV4("vehicles"), name |-> body.name]
      IN InsertEntity("vehicles", "postVehicle", vehicle, 0, ok)

\* createTransitHub: `lookup` is whether the time-zone service answers.
CreateTransitHub ==
    \E body \in TransitHubBodies, lookup \in BOOLEAN, ok \in BOOLEAN :
      LET transitHub == [_id |-> EntityUuidV4("transitHubs"), name |-> body.name,
                         iana |-> <<"tz">>]
      IN InsertEntity("transitHubs", "createTransitHub", transitHub,
                      IF lookup THEN 0 ELSE 500, ok)

\* createRegion
CreateRegion ==
    \E body \in RegionBodies, ok \in BOOLEAN :
      LET region == [_id |-> EntityUuidV4("regions"), name |-> body.name]
      IN InsertEntity("regions", "createRegion", region,
                      IF ValidateRequiredFields(<<region.name>>) THEN 0 ELSE 400, ok)

\* linkRegionToTransitHub
LinkRegionToTransitHub ==
    \E body \in RegionTransitHubBodies, ok \in BOOLEAN :
      LET regionTransitHub ==
              [_id |-> UuidV4("regionTransitHubs", regionTransitHubsCollection),
               region |-> body.region, transit_hub |-> body.transit_hub]
          valid == ValidateRequiredFields(<<regionTransitHub.region,
                                            regionTransitHub.transit_hub>>)
      IN /\ NoCall
         /\ RowsIssued < MaxRows
         /\ IF ~valid
            THEN /\ resp' = Response("linkRegionToTransitHub", 400, <<>>)
                 /\ storeReqs' = 0
                 /\ storeFailed' = FALSE
                 /\ UNCHANGED regionTransitHubsCollection
            ELSE /\ storeReqs' = 1
                 /\ storeFailed' = ~ok
                 /\ IF ok
                    THEN /\ regionTransitHubsCollection' =
                              Append(regionTransitHubsCollection, regionTransitHub)
                         /\ resp' = Response("linkRegionToTransitHub", 200,
                                             regionTransitHub._id)
                    ELSE /\ resp' = Response("linkRegionToTransitHub", 500, <<>>)
                         /\ UNCHANGED regionTransitHubsCollection
         /\ NoListing
         /\ UNCHANGED <<storeVars, carriersCollection, vehiclesCollection,
                        transitHubsCollection, regionsCollection, uuidsIssued,
                        objectStore, client, request, calls>>

\* A replace that would insert the document when no row has the identifier.
ReplaceOneUpsert(rows, id, doc) ==
    LET hits == {i \in 1..Len(rows) : rows[i]._id = id}
    IN IF hits = {} THEN Append(rows, doc)
       ELSE [i \in 1..Len(rows) |-> IF i \in hits /\ (\A g \in hits : i <= g)
                                     THEN doc ELSE rows[i]]
\* replaceOne({_id: id}, doc): the first row with that identifier becomes doc;
\* without such a row nothing is written.
ReplaceOne(rows, id, doc) ==
    LET hits == {i \in 1..Len(rows) : rows[i]._id = id}
    IN [i \in 1..Len(rows) |-> IF i \in hits /\ (\A g \in hits : i <= g)
                                THEN doc ELSE rows[i]]

\* Bodies of the update requests.
CarrierUpdates ==
    [name : {<<"n2">>}, iata : {<<"AA">>}, icao : {<<"AAL">>}]
      \cup [name : {<<" ">>}, iata : {<<"AA">>}, icao : {<<"AAL">>}]
      \cup [_id : {<<"c2">>}, name : {<<"n2">>}, iata : {<<"AA">>}, icao : {<<"AAL">>}]
VehicleUpdates == [name : {<<"n2">>}] \cup [_id : {<<"v2">>}, name : {<<"n2">>}]
TransitHubUpdates == [name : {<<"n2">>}] \cup [_id : {<<"h2">>}, name : {<<"n2">>}]
RegionUpdates == [name : {<<"n2">>, EmptyStr}]

\* The response of an update keeps the identifier asked for beside the outcome.
UpdateResponse(op, status, body, id) ==
    [op |-> op, status |-> status, body |-> body, id |-> id]

\* patchCarrier, patchRegion, updateVehicle, patchTransitHub.  `lookedUp`: the
\* handler starts with getEntityById, which `found` says the store answers;
\* `rejected`: the status the handler answers before its write, 0 for none;
\* `ok`: the store answers the replaceOne.
ReplaceEntity(name, op, id, entity, lookedUp, found, rejected, ok) ==
    LET rows == EntityRows(name)
        stored == \E i \in 1..Len(rows) : rows[i]._id = id
        missing == IF ~lookedUp THEN 0 ELSE IF ~found THEN 500 ELSE IF ~stored THEN 404 ELSE 0
        reads == IF lookedUp THEN 1 ELSE 0
    IN /\ NoCall
       /\ IF missing # 0
          THEN /\ resp' = UpdateResponse(op, missing, <<>>, id)
               /\ storeReqs' = 1
               /\ storeFailed' = ~found
               /\ EntityRowsBecome(name, RowsAfterRejection(rows, entity))
          ELSE IF rejected # 0
          THEN /\ resp' = UpdateResponse(op, rejected, <<>>, id)
               /\ storeReqs' = reads
               /\ storeFailed' = FALSE
               /\ EntityRowsBecome(name, RowsAfterRejection(rows, entity))
          ELSE /\ storeReqs' = reads + 1
               /\ storeFailed' = ~ok
               /\ IF ok
                  THEN /\ EntityRowsBecome(name, ReplaceOne(rows, id, entity))
                       /\ resp' = UpdateResponse(op, 200, entity, id)
                  ELSE /\ EntityRowsBecome(name, rows)
                       /\ resp' = UpdateResponse(op, 500, <<>>, id)
       /\ NoListing
       /\ UNCHANGED <<storeVars, regionTransitHubsCollection, uuidsIssued, objectStore,
                      client, request, calls>>

\* patchCarrier
PatchCarrier ==
    \E carrierId \in IdParams("carriers"), body \in CarrierUpdates,
       found \in BOOLEAN, ok \in BOOLEAN :
      LET carrier == AssignKey(body, "_id", AssignedId(body, carrierId))
      IN ReplaceEntity("carriers", "patchCarrier", carrierId, carrier, TRUE, found,
             IF ValidateRequiredFields(<<carrier.name, carrier.iata, carrier.icao>>)
             THEN 0 ELSE 400, ok)

\* patchRegion
PatchRegion ==
    \E regionId \in IdParams("regions"), body \in RegionUpdates,
       found \in BOOLEAN, ok \in BOOLEAN :
      LET region == AssignKey(body, "_id", AssignedId(body, regionId))
      IN ReplaceEntity("regions", "patchRegion", regionId, region, TRUE, found,
             IF ValidateRequiredFields(<<region.name>>) THEN 0 ELSE 400, ok)

\* updateVehicle
UpdateVehicle ==
    \E vehicleId \in IdParams("vehicles"), body \in VehicleUpdates, ok \in BOOLEAN :
      LET vehicle == AssignKey(body, "_id", AssignedId(body, vehicleId))
      IN ReplaceEntity("vehicles", "updateVehicle", vehicleId, vehicle, FALSE, TRUE, 0, ok)

\* patchTransitHub: `lookup` is whether the time-zone service answers.
PatchTransitHub ==
    \E transitHubId \in IdParams("transitHubs"), body \in TransitHubUpdates,
       lookup \in BOOLEAN, ok \in BOOLEAN :
      LET transitHub == AssignKey(AssignKey(body, "iana", <<"tz">>), "_id",
                                  AssignedId(body, transitHubId))
      IN ReplaceEntity("transitHubs", "patchTransitHub", transitHubId, transitHub,
                       FALSE, TRUE, IF lookup THEN 0 ELSE 500, ok)

\* A delete that would take the first row, whatever its identifier.
DeleteOneHead(rows, id) == IF rows = <<>> THEN rows ELSE Tail(rows)
\* deleteOne({_id: id}): the first row with that identifier goes, if there is one.
DeleteOne(rows, id) ==
    LET hits == {i \in 1..Len(rows) : rows[i]._id = id}
    IN IF hits = {} THEN rows
       ELSE LET k == CHOOSE i \in hits : \A j \in hits : i <= j
            IN SubSeq(rows, 1, k - 1) \o SubSeq(rows, k + 1, Len(rows))

\* deleteCarrier, deleteVehicle, deleteTransitHub, deleteRegion
DeleteEntity(name, op) ==
    \E id \in IdParams(name), ok \in BOOLEAN :
      /\ NoCall
      /\ storeReqs' = 1
      /\ storeFailed' = ~ok
      /\ resp' = Response(op, IF ok THEN 200 ELSE 500, id)
      /\ EntityRowsBecome(name, IF ok THEN DeleteOne(EntityRows(name), id)
                                 ELSE EntityRows(name))
      /\ NoListing
      /\ UNCHANGED <<storeVars, regionTransitHubsCollection, uuidsIssued, objectStore,
                     client, request, calls>>

DeleteCarrier == DeleteEntity("carriers", "deleteCarrier")
DeleteVehicle == DeleteEntity("vehicles", "deleteVehicle")
DeleteTransitHub == DeleteEntity("transitHubs", "deleteTransitHub")
DeleteRegion == DeleteEntity("regions", "deleteRegion")

\* sort({name: 1}): the rows in an order that ascends by name; rows of one name
\* come in any order.
NameRank(name) == IF name = <<"n1">> THEN 1 ELSE 2
SortedByName(rows) ==
    {q \in DistinctSeqs(Range(rows), Len(rows)) :
        /\ Len(q) = Len(rows)
        /\ \A i, j \in 1..Len(q) : i < j => NameRank(q[i].name) <= NameRank(q[j].name)}

\* A default that would mark a missing key instead of counting it as none.
CountOrMissing(counts, id) == IF id \in DOMAIN counts THEN counts[id] ELSE -1
\* picCount[entity._id] || 0
CountOrZero(counts, id) == IF id \in DOMAIN counts THEN counts[id] ELSE 0

\* entities.map((entity) => ({...entity, [countName]: counts[entity._id] || 0}))
EntityTable(entities, counts, countName) ==
    [i \in 1..Len(entities) |->
        [f \in DOMAIN entities[i] \cup {countName} |->
            IF f = countName THEN CountOrZero(counts, entities[i]._id)
            ELSE entities[i][f]]]

\* getCarriers, getVehicles, getTransitHubs: the scan of the entities, then
\* getPictureCountsForEntities over their identifiers; `failed` is the request
\* that fails, 0 for none.
GetWithPictureCounts(op, entities, pictures, fieldName) ==
    \E failed \in {0, 1, 2} :
      LET ids == [i \in 1..Len(entities) |-> entities[i]._id]
          reqs == 1 + CountStoreRequests(ids)
      IN /\ NoCall
         /\ failed <= reqs
         /\ storeReqs' = IF failed = 0 THEN reqs ELSE failed
         /\ storeFailed' = (failed # 0)
         /\ resp' = IF failed = 0
                    THEN Response(op, 200,
                             EntityTable(entities,
                                 GetPictureCountsForEntities(pictures, ids, fieldName),
                                 "pictures"))
                    ELSE Response(op, 500, <<>>)
         /\ NoListing
         /\ UNCHANGED <<storeVars, entityVars, objectStore, client, request, calls>>

GetCarriers ==
    \E carriers \in SortedByName(carriersCollection) :
      GetWithPictureCounts("getCarriers", carriers, picturesCollection, "carrier")

GetVehicles ==
    \E vehicles \in SortedByName(vehiclesCollection) :
      GetWithPictureCounts("getVehicles", vehicles, picturesCollection, "vehicle")

GetTransitHubs ==
    GetWithPictureCounts("getTransitHubs", transitHubsCollection,
                         transitHubPicturesCollection, "transit_hub")

\* for (const rth of regionTransitHubs) transitHubCount[rth.region] = (... || 0) + 1
RECURSIVE CountByRegion(_, _, _)
CountByRegion(regionTransitHubs, i, transitHubCount) ==
    IF i > Len(regionTransitHubs) THEN transitHubCount
    ELSE LET region == regionTransitHubs[i].region
         IN CountByRegion(regionTransitHubs, i + 1,
                AssignKey(transitHubCount, region, CountOrZero(transitHubCount, region) + 1))

\* getRegions: the scan of the regions, then find({region: {$in: regionIds}}).
GetRegions ==
    \E failed \in {0, 1, 2} :
      LET regions == regionsCollection
          regionIds == [i \in 1..Len(regions) |-> regions[i]._id]
          InIds(rth) == rth.region \in Range(regionIds)
          regionTransitHubs == SelectSeq(regionTransitHubsCollection, InIds)
      IN /\ NoCall
         /\ storeReqs' = IF failed = 0 THEN 2 ELSE failed
         /\ storeFailed' = (failed # 0)
         /\ resp' = IF failed = 0
                    THEN Response("getRegions", 200,
                             EntityTable(regions,
                                 CountByRegion(regionTransitHubs, 1, EmptyRecord),
                                 "transit_hub_count"))
                    ELSE Response("getRegions", 500, <<>>)
         /\ NoListing
         /\ UNCHANGED <<storeVars, entityVars, objectStore, client, request, calls>>

\* getVehiclesInSeries: the vehicle of each VehicleSeries row of the series.
GetVehiclesInSeries(seriesParam) ==
    LET OfSeries(s) == s.series = seriesParam
        series == SelectSeq(seriesCollection, OfSeries)
    IN [i \in 1..Len(series) |-> series[i].vehicle]

\* find({[f]: {$in: ids}}): the rows whose field f is one of the ids.
FindIn(rows, f, ids) ==
    LET Among(row) == Field(row, f) \in Range(ids) IN SelectSeq(rows, Among)

\* getVehiclesFromIds and the pictures read: nothing is sent for no IDs.
FindInStoreRequests(ids) == IF Len(ids) = 0 THEN 0 ELSE 1

SeriesParams == {<<"S1">>, <<"S2">>}

\* getVehiclesWithinSeries: the VehicleSeries rows of the series, the vehicles
\* with those IDs, their picture counts, the pictures of those IDs; `failed`
\* is the request that fails, 0 for none.
GetVehiclesWithinSeries ==
    \E seriesParam \in SeriesParams, failed \in 0..4 :
      LET vehicleIds == GetVehiclesInSeries(seriesParam)
          vehicles == IF Len(vehicleIds) = 0 THEN <<>>
                      ELSE FindIn(vehiclesCollection, "_id", vehicleIds)
          pictureCounts == GetPictureCountsForEntities(picturesCollection, vehicleIds,
                                                       "vehicle")
          allPictures == IF Len(vehicleIds) > 0
                         THEN FindIn(picturesCollection, "vehicle", vehicleIds)
                         ELSE <<>>
          reqs == 1 + FindInStoreRequests(vehicleIds) + CountStoreRequests(vehicleIds)
                    + FindInStoreRequests(vehicleIds)
          response == [vehicle_number |-> Len(vehicles),
                       picture_count |-> Len(allPictures),
                       vehicles |-> EntityTable(vehicles, pictureCounts, "pictures"),
                       pictures |-> allPictures]
      IN /\ NoCall
         /\ failed <= reqs
         /\ storeReqs' = IF failed = 0 THEN reqs ELSE failed
         /\ storeFailed' = (failed # 0)
         /\ resp' = IF failed = 0
                    THEN [op |-> "getVehiclesWithinSeries", status |-> 200,
                          body |-> response, series |-> seriesParam]
                    ELSE [op |-> "getVehiclesWithinSeries", status |-> 500,
                          body |-> <<>>, series |-> seriesParam]
         /\ NoListing
         /\ UNCHANGED <<storeVars, entityVars, objectStore, client, request, calls>>

\* Bodies of the links that name vehicles by their identifiers.
ViewSeriesBodies == [vehicle : IdParams("vehicles"), series : SeriesParams]
ViewPictureBodies == [carrier : {<<"c1">>}, vehicle : IdParams("vehicles"), url : {KeyA}]

\* The views over IDs: vehicles and regions are created, series and pictures
\* linked, the series view and the regions asked for.
NextViews ==
    \/ PostVehicle
    \/ CreateRegion
    \/ (RowsIssued < MaxRows /\ LinkSeries(ViewSeriesBodies, MaxSeries))
    \/ (RowsIssued < MaxRows /\ LinkPhotoToTravel(ViewPictureBodies, MaxPictures))
    \/ LinkRegionToTransitHub
    \/ GetVehiclesWithinSeries
    \/ GetRegions

SpecViews == InitAgg /\ [][NextViews]_vars

\* Bodies of the link requests sent beside the updates, complete or not.
UpdPictureBodies == [carrier : {<<"c1">>}, vehicle : {<<"v1">>, EmptyStr}, url : {KeyA}]
UpdSeriesBodies == [vehicle : {<<"v1">>, Undefined}, series : {<<"S1">>}]
UpdMediaBodies == [transit_hub : {<<"h1">>}, url : {KeyA, Undefined}]

\* Entities are created, replaced and deleted, and relation rows linked.
NextUpdates ==
    \/ (RowsIssued < MaxCreated /\ PostCarrier)
    \/ (RowsIssued < MaxCreated /\ PostVehicle)
    \/ (RowsIssued < MaxCreated /\ CreateTransitHub)
    \/ (RowsIssued < MaxCreated /\ CreateRegion)
    \/ PatchCarrier
    \/ UpdateVehicle
    \/ PatchTransitHub
    \/ PatchRegion
    \/ DeleteCarrier
    \/ DeleteVehicle
    \/ DeleteTransitHub
    \/ DeleteRegion
    \/ (RowsIssued < MaxCreated /\ LinkPhotoToTravel(UpdPictureBodies, MaxPictures))
    \/ (RowsIssued < MaxCreated /\ LinkSeries(UpdSeriesBodies, MaxSeries))
    \/ (RowsIssued < MaxCreated /\ LinkPhotoToTransitHub(UpdMediaBodies))
    \/ (RowsIssued < MaxCreated /\ LinkRegionToTransitHub)

SpecUpdates == InitAgg /\ [][NextUpdates]_vars

NextEntities ==
    \/ PostCarrier
    \/ PostVehicle
    \/ CreateTransitHub
    \/ CreateRegion
    \/ DeleteCarrier
    \/ DeleteVehicle
    \/ DeleteTransitHub
    \/ DeleteRegion
    \/ (RowsIssued < MaxRows /\ LinkPhotoToTravel(EntPictureBodies, MaxPictures))
    \/ (RowsIssued < MaxRows /\ LinkPhotoToTransitHub(EntMediaBodies))
    \/ LinkRegionToTransitHub
    \/ GetCarriers
    \/ GetVehicles
    \/ GetTransitHubs
    \/ GetRegions

SpecEntities == InitAgg /\ [][NextEntities]_vars

-----------------------------------------------------------------------------
(* Authentication.  A symbol of a token stands for 32 characters, the       *)
(* symbol " " for one blank; "Bearer " and "Basic " are the scheme with its  *)
(* blank.                                                                  *)

\* config.authToken: the 64 characters of AUTH_TOKEN.
AuthToken == <<"k1", "k2">>

\* The Authorization headers sent: none, an empty one, another scheme, a token
\* too short, a wrong token of the right length, the token, the token
\* followed by a blank.
Authorizations ==
    {Undefined, EmptyStr, <<"Basic ", "k1", "k2">>, <<"Bearer ", "k1">>,
     <<"Bearer ", "k1", "k3">>, <<"Bearer ", "k1", "k2">>, <<"Bearer ", "k1", "k2", " ">>}

\* String.prototype.length
RECURSIVE StringLength(_)
StringLength(str) ==
    IF str = <<>> THEN 0
    ELSE (IF Head(str) = " " THEN 1 ELSE 32) + StringLength(Tail(str))

\* constantTimeCompare
ConstantTimeCompare(a, b) ==
    IF StringLength(a) # StringLength(b) THEN FALSE
    ELSE \A i \in 1..Len(a) : a[i] = b[i]

\* What a middleware does with a request: it calls next(), or answers itself.
CallsNext == [next |-> TRUE, status |-> 0]
Answers(status) == [next |-> FALSE, status |-> status]

\* authenticateAdmin of the Hono backend.
AuthenticateAdmin(authHeader) ==
    IF Falsy(AuthToken) THEN Answers(500)
    ELSE IF Falsy(authHeader) THEN Answers(401)
    ELSE IF ~StartsWith(authHeader, <<"Bearer ">>) THEN Answers(401)
    ELSE LET providedToken == Trim(Tail(authHeader))
         IN IF StringLength(providedToken) # 64 THEN Answers(401)
            ELSE IF ~ConstantTimeCompare(providedToken, AuthToken) THEN Answers(401)
            ELSE CallsNext

Backends == {"fastify", "hono"}
ProtectedRoutes == {"GET /travel-pictures-table", "POST /travel-pictures"}

\* What stands between a request and the handler of its route: the Hono routes
\* are registered as app.get(path, authenticateAdmin, handler), the Fastify
\* routes as fastify.get(path, handler), and /health without a middleware in both.
BeforeHandler(backend, route, authHeader) ==
    IF route = "GET /health" THEN CallsNext
    ELSE IF backend = "hono" THEN AuthenticateAdmin(authHeader)
    ELSE CallsNext

\* GET /health
Health ==
    \E backend \in Backends, authHeader \in Authorizations :
      /\ NoCall
      /\ request' = [backend |-> backend, route |-> "GET /health",
                      authorization |-> authHeader]
      /\ resp' = Response("health", 200, <<>>)
      /\ storeReqs' = 0
      /\ storeFailed' = FALSE
      /\ NoListing
      /\ UNCHANGED <<storeVars, objectStore, client, entityVars, calls>>

\* GET /travel-pictures-table: the middleware of the route, then its handler,
\* the store answering.
TravelPicturesTableRoute ==
    \E backend \in Backends, authHeader \in Authorizations :
      LET before == BeforeHandler(backend, "GET /travel-pictures-table", authHeader)
      IN /\ NoCall
         /\ request' = [backend |-> backend, route |-> "GET /travel-pictures-table",
                         authorization |-> authHeader]
         /\ IF ~before.next
            THEN /\ resp' = Response("authenticateAdmin", before.status, <<>>)
                 /\ storeReqs' = 0
            ELSE /\ resp' = Response("getTravelPicturesTable", 200,
                                      convertToTravelPictureTable(picturesCollection))
                 /\ storeReqs' = 1
         /\ storeFailed' = FALSE
         /\ NoListing
         /\ UNCHANGED <<storeVars, objectStore, client, entityVars, calls>>

\* POST /travel-pictures: the middleware of the route, then its handler, the
\* store answering.
TravelPicturesRoute ==
    \E backend \in Backends, authHeader \in Authorizations, body \in AggPictureBodies :
      LET before == BeforeHandler(backend, "POST /travel-pictures", authHeader)
          picture == [_id |-> UuidV4("pictures", picturesCollection),
                      carrier |-> body.carrier, vehicle |-> body.vehicle, url |-> body.url]
          valid == ValidateRequiredFields(<<picture.carrier, picture.url, picture.vehicle>>)
      IN /\ NoCall
         /\ Len(picturesCollection) < MaxPictures
         /\ request' = [backend |-> backend, route |-> "POST /travel-pictures",
                         authorization |-> authHeader]
         /\ IF ~before.next
            THEN /\ resp' = Response("authenticateAdmin", before.status, <<>>)
                 /\ storeReqs' = 0
                 /\ UNCHANGED picturesCollection
            ELSE IF ~valid
            THEN /\ resp' = Response("linkPhotoToTravel", 400, <<>>)
                 /\ storeReqs' = 0
                 /\ UNCHANGED picturesCollection
            ELSE /\ resp' = Response("linkPhotoToTravel", 200, picture.url)
                 /\ storeReqs' = 1
                 /\ picturesCollection' = Append(picturesCollection, picture)
         /\ storeFailed' = FALSE
         /\ NoListing
         /\ UNCHANGED <<seriesCollection, transitHubPicturesCollection, objectStore,
                        client, entityVars, calls>>

NextAuth ==
    \/ Health
    \/ TravelPicturesTableRoute
    \/ TravelPicturesRoute

SpecAuth == InitAgg /\ [][NextAuth]_vars

-----------------------------------------------------------------------------
(* Properties of the counting calls (SpecCounts). *)

RECURSIVE SumOver(_, _)
SumOver(f, D) ==
    IF D = {} THEN 0
    ELSE LET k == CHOOSE x \in D : TRUE IN f[k] + SumOver(f, D \ {k})

\* The rows of `rows` whose field `f` is `v`, by position.
RowsWith(rows, f, v) == {i \in 1..Len(rows) : Field(rows[i], f) = v}

CountsReturned == resp.op = "getPictureCounts" /\ resp.status = "returned"

\* C1: a counting call with a non-empty ID list S returns a mapping whose keys
\* are IDs of S, each mapped to the number of rows whose field equals it, and
\* whose values sum to the number of rows whose field is in S.
C1_CountsExact ==
    (CountsReturned /\ Len(resp.body[3]) > 0) =>
        LET rows == Collection(resp.body[1])
            f == resp.body[2]
            S == Range(resp.body[3])
            counts == resp.counts
        IN /\ DOMAIN counts \subseteq S
           /\ \A k \in DOMAIN counts : counts[k] = Cardinality(RowsWith(rows, f, k))
           /\ SumOver(counts, DOMAIN counts)
                = Cardinality({i \in 1..Len(rows) : Field(rows[i], f) \in S})

\* C1 witness: IDs A and B were asked for; two rows of A are counted, a row of
\* another carrier is stored, and B has no row.
C1_Witness ==
    /\ CountsReturned
    /\ resp.body[2] = "carrier"
    /\ resp.body[3] = << <<"A">>, <<"B">> >>
    /\ resp.counts = (<<"A">> :> 2)
    /\ \E i \in 1..Len(picturesCollection) :
          picturesCollection[i].carrier = <<"A", "|", "B">>

\* C2: a counting call with an empty ID list returns the empty mapping and sends
\* nothing to the store, whatever the store holds.
C2_EmptyIdsNoStoreCall ==
    (resp.op = "getPictureCounts" /\ Len(resp.body) = 3 /\ Len(resp.body[3]) = 0) =>
        /\ resp.status = "returned"
        /\ resp.counts = EmptyRecord
        /\ storeReqs = 0

\* C2 witness: the empty list was asked of a collection that holds rows.
C2_Witness ==
    /\ CountsReturned
    /\ Len(resp.body[3]) = 0
    /\ Len(Collection(resp.body[1])) > 0
    /\ storeReqs = 0

-----------------------------------------------------------------------------
(* Properties of the carrier x series table (SpecSeries). *)

SeriesTableReturned == resp.op = "getTravelPicturesSeries" /\ resp.status = 200

\* The pictures of carrier c whose vehicle some VehicleSeries row puts in series s.
PicturesOfPair(c, s) ==
    {i \in 1..Len(picturesCollection) :
        /\ picturesCollection[i].carrier = c
        /\ \E j \in 1..Len(seriesCollection) :
              /\ seriesCollection[j].vehicle = picturesCollection[i].vehicle
              /\ seriesCollection[j].series = s}

\* Every pair the table could owe a row to, and every pair it names.
CandidatePairs ==
    {<<picturesCollection[i].carrier, seriesCollection[j].series>> :
        i \in 1..Len(picturesCollection), j \in 1..Len(seriesCollection)}
      \cup {<<resp.body[i].carrier, resp.body[i].series>> : i \in 1..Len(resp.body)}

\* C3: the table holds a row for a (carrier, series) pair exactly when a picture
\* of that carrier has a vehicle of that series, and the row's count is then the
\* number of such pictures.
C3_SeriesTableExact ==
    SeriesTableReturned =>
        \A pair \in CandidatePairs :
            LET rowsOfPair == {i \in 1..Len(resp.body) :
                                 /\ resp.body[i].carrier = pair[1]
                                 /\ resp.body[i].series = pair[2]}
                n == Cardinality(PicturesOfPair(pair[1], pair[2]))
            IN /\ (n > 0) <=> (rowsOfPair # {})
               /\ \A i \in rowsOfPair : resp.body[i].count = n

-----------------------------------------------------------------------------
(* Properties of the reconciliation (SpecUnlinked). *)

Domains == {"travels", "transit-hubs"}
BucketOf(domain) == IF domain = "travels" THEN <<"milememory">> ELSE <<"flight-history">>
PrefixOf(domain) == IF domain = "travels" THEN <<"vehicles", "/">> ELSE <<"flights", "/">>
RowsOf(domain) ==
    IF domain = "travels" THEN picturesCollection ELSE transitHubPicturesCollection

UnlinkedShown == lpc = "idle" /\ resp.op \in Domains /\ resp.status = 200

\* The position of key k in the listing of a bucket.
ListedAt(bucket, k) == CHOOSE i \in 1..Len(objectStore[bucket]) : objectStore[bucket][i] = k

\* C4: the unlinked list of a domain holds exactly the media keys the object
\* store lists under the domain's prefix that no linked row of the domain has as
\* its url, each once, in the order of the listing.
C4_UnlinkedExact ==
    UnlinkedShown =>
        LET bucket == BucketOf(resp.op)
            listed == objectStore[bucket]
            linked == {RowsOf(resp.op)[i].url : i \in 1..Len(RowsOf(resp.op))}
            out == resp.body
        IN /\ \A k \in Range(listed) :
                 (k \in Range(out)) <=>
                     (StartsWith(k, PrefixOf(resp.op)) /\ isImageFile(k) /\ k \notin linked)
           /\ Range(out) \subseteq Range(listed)
           /\ \A i, j \in 1..Len(out) :
                 i < j => ListedAt(bucket, out[i]) < ListedAt(bucket, out[j])

\* C4 witness: three objects are listed, one of the two image keys is linked and
\* the other one alone is returned.
C4_Witness ==
    /\ UnlinkedShown
    /\ resp.op = "travels"
    /\ Len(objectStore[<<"milememory">>]) = 3
    /\ \E i \in 1..Len(picturesCollection) :
          picturesCollection[i].url = <<"vehicles", "/", "a", ".", "jpg">>
    /\ resp.body = << <<"vehicles", "/", "b", ".", "PNG">> >>

Without(list, k) == LET Other(x) == x # k IN SelectSeq(list, Other)

\* C5: when the client was shown a list, then linked one key (once or more) and
\* nothing else in that domain, the next list it is shown is the earlier list
\* with that key removed: the other keys stay, in place, and none is added.
C5_LinkRemovesKey ==
    (UnlinkedShown /\ client.hadList /\ Cardinality(client.linked) = 1) =>
        \A k \in client.linked : resp.body = Without(client.before, k)

\* C5 witness: the earlier list held two keys, one of them was linked and the
\* list shown next holds the other.
C5_Witness ==
    /\ UnlinkedShown
    /\ client.hadList
    /\ Len(client.before) = 2
    /\ Cardinality(client.linked) = 1
    /\ client.linked \subseteq Range(client.before)
    /\ Len(resp.body) = 1

\* C9: when the scan of the linked URLs or a page request of the listing has
\* failed, the answer is the 500 error and carries no list of keys.
C9_UnlinkedFailsWhole ==
    (lpc = "idle" /\ resp.op \in Domains /\ (storeFailed \/ s3Failed)) =>
        /\ resp.status = 500
        /\ resp.body = "Failed to get unlinked pictures"

\* C9 witness: the second page request failed after a first page with an image
\* key had arrived.
C9_Witness ==
    /\ lpc = "idle"
    /\ resp.op \in Domains
    /\ s3Failed
    /\ s3Reqs = 2
    /\ s3Images # <<>>
    /\ resp.status = 500

-----------------------------------------------------------------------------
(* Properties of listImages (Spec). *)

ListImagesDone == lpc = "idle" /\ resp.op = "listImages"

\* The image keys a bucket lists under a prefix, in listing order.
ImageKeysUnder(bucket, prefix) ==
    LET keys == KeysUnder(bucket, prefix)
        Image(k) == isImageFile(k)
    IN SelectSeq(keys, Image)

\* C6: however the store cuts the listing into pages, a call that returns hands
\* back every image key of every page, once each, in the order listed.
C6_AllPagesReturned ==
    (ListImagesDone /\ resp.status = "returned") =>
        /\ resp.body = ImageKeysUnder(bucketName, folderPrefix)
        /\ s3Reqs >= 1

\* C6 witness: the listing came in three pages and two image keys are returned.
C6_Witness ==
    /\ ListImagesDone
    /\ resp.status = "returned"
    /\ s3Reqs = 3
    /\ Len(resp.body) = 2

\* C7: once a page request has failed the call throws; its outcome is the error,
\* not the keys of the pages that had arrived.
C7_FailureThrows ==
    (resp.op = "listImages" /\ s3Failed) =>
        /\ lpc = "idle"
        /\ resp.status = "thrown"
        /\ resp.body = "Failed to list S3 images"

\* C7 witness: a page with an image key had arrived when the next request failed.
C7_Witness ==
    /\ ListImagesDone
    /\ s3Failed
    /\ s3Reqs >= 2
    /\ s3Images # <<>>
    /\ resp.status = "thrown"

\* C8: a call with an empty bucket name or an empty prefix throws and sends no
\* page request.
C8_EmptyArgumentsThrow ==
    (caller = "direct" /\ (Falsy(bucketName) \/ Falsy(folderPrefix))) =>
        /\ lpc = "idle"
        /\ s3Reqs = 0
        /\ resp.op = "listImages"
        /\ resp.status = "thrown"
        /\ resp.body \in {"Bucket name cannot be empty", "Folder prefix cannot be empty"}

\* C8 witness: the prefix alone was empty, and the bucket holds objects.
C8_Witness ==
    /\ caller = "direct"
    /\ bucketName = <<"milememory">>
    /\ folderPrefix = EmptyStr
    /\ Len(objectStore[bucketName]) > 0
    /\ resp.status = "thrown"
    /\ s3Reqs = 0

\* C10 as claimed: once the caller has gone away no further page request is sent
\* and the call ends by throwing.
C10_CancelStopsListing ==
    [][(cancelled /\ lpc = "awaiting") =>
          /\ s3Reqs' = s3Reqs
          /\ (lpc' = "idle" => resp'.status = "thrown")]_vars

\* C10 as amended: listImages does not observe its caller going away; a call
\* whose caller went away and whose page requests all succeeded has fetched
\* every page and returns the complete list of image keys.
C10_CancelIgnored ==
    (ListImagesDone /\ cancelled /\ ~s3Failed) =>
        /\ resp.status = "returned"
        /\ resp.body = ImageKeysUnder(bucketName, folderPrefix)
        /\ continuationToken = Undefined

\* C10 witness: page requests were sent after the caller went away, and the
\* keys were returned.
C10_Witness ==
    /\ ListImagesDone
    /\ cancelled
    /\ s3Reqs > cancelledAt
    /\ resp.status = "returned"
    /\ Len(resp.body) = 2

-----------------------------------------------------------------------------
(* Properties of the carrier x vehicle table (SpecTable). *)

PairTableReturned == resp.op = "getTravelPicturesTable" /\ resp.status = 200

\* The pictures of carrier c and vehicle v.
PicturesOf(c, v) ==
    {i \in 1..Len(picturesCollection) :
        picturesCollection[i].carrier = c /\ picturesCollection[i].vehicle = v}

\* Every pair the pictures hold, and every pair the table names.
PairsMet ==
    {<<picturesCollection[i].carrier, picturesCollection[i].vehicle>> :
        i \in 1..Len(picturesCollection)}
      \cup {<<resp.body[i].carrier, resp.body[i].vehicle>> : i \in 1..Len(resp.body)}

RECURSIVE SumCounts(_, _)
SumCounts(table, i) == IF i > Len(table) THEN 0 ELSE table[i].count + SumCounts(table, i + 1)

\* C11: the pair table holds one row for each (carrier, vehicle) pair that has a
\* picture, with the number of pictures of the pair as its count, no row for
\* any other pair, and counts that sum to the number of pictures.
C11_PairTableExact ==
    PairTableReturned =>
        /\ \A pair \in PairsMet :
              LET rowsOfPair == {i \in 1..Len(resp.body) :
                                   /\ resp.body[i].carrier = pair[1]
                                   /\ resp.body[i].vehicle = pair[2]}
                  n == Cardinality(PicturesOf(pair[1], pair[2]))
              IN /\ Cardinality(rowsOfPair) = (IF n > 0 THEN 1 ELSE 0)
                 /\ \A i \in rowsOfPair : resp.body[i].count = n
        /\ SumCounts(resp.body, 1) = Len(picturesCollection)

-----------------------------------------------------------------------------
(* Round trips of the counting calls (SpecCounts). *)

\* C13: a counting call with one ID or more sends exactly one aggregation
\* request to the store, however many IDs it is given and whether the request
\* is answered or fails.
C13_OneRoundTrip ==
    (resp.op = "getPictureCounts"
        /\ (IF resp.status = "returned" THEN Len(resp.body[3]) >= 1 ELSE TRUE)) =>
        storeReqs = 1

\* C13 witness: two IDs were asked for, both have rows, and one request was sent.
C13_Witness ==
    /\ CountsReturned
    /\ resp.body[3] = << <<"V1">>, <<"V2">> >>
    /\ DOMAIN resp.counts = {<<"V1">>, <<"V2">>}
    /\ storeReqs = 1

-----------------------------------------------------------------------------
(* Failures, page order and the extension filter. *)

\* C17: the step in which a page request fails sends no further request and
\* ends the call with the error; the step in which the scan of the linked URLs
\* fails sends no page request and no second scan and answers with the error.
C17_NoRetry ==
    [][/\ (s3Failed' /\ ~s3Failed) =>
             /\ s3Reqs' = s3Reqs
             /\ storeReqs' = storeReqs
             /\ lpc' = "idle"
             /\ resp'.status = 500
       /\ (storeFailed' /\ lpc = "idle" /\ resp'.op \in Domains) =>
             /\ storeReqs' = 1
             /\ s3Reqs' = 0
             /\ lpc' = "idle"
             /\ resp'.status = 500]_vars

\* C17 witness: the second page request failed while the listing held keys not
\* yet asked for; two requests were sent in all and the answer is the error.
C17_Witness ==
    /\ lpc = "idle"
    /\ resp.op \in Domains
    /\ resp.status = 500
    /\ s3Failed
    /\ s3Reqs = 2
    /\ s3Responses = 2
    /\ continuationToken # Undefined
    /\ continuationToken[2] <= Len(KeysUnder(bucketName, folderPrefix))

\* C18: a call opens with one request without a token; a further request is
\* sent only in the step that takes in the response to the one before, and it
\* carries the token of that response; never is more than one request
\* unanswered.
C18_PagesSequential ==
    [][/\ (lpc = "idle" /\ lpc' = "awaiting") =>
             /\ s3Reqs' = 1
             /\ s3Responses' = 0
             /\ continuationToken' = Undefined
       /\ (lpc = "awaiting" /\ s3Reqs' # s3Reqs) =>
             /\ s3Reqs' = s3Reqs + 1
             /\ s3Responses' = s3Reqs
             /\ \E n \in 1..MaxObjects :
                   LET response == ListObjectsV2(bucketName, folderPrefix,
                                                 continuationToken, n)
                   IN /\ "NextContinuationToken" \in DOMAIN response
                      /\ continuationToken' = response.NextContinuationToken
                      /\ s3Images' = PushImages(response, s3Images)
       /\ s3Reqs' - s3Responses' = (IF lpc' = "awaiting" THEN 1 ELSE 0)]_vars

\* C18 witness: the third request is out, two responses are in, and the request
\* carries the token that resumes at the third key.
C18_Witness ==
    /\ lpc = "awaiting"
    /\ s3Reqs = 3
    /\ s3Responses = 2
    /\ continuationToken = <<"token", 3>>

\* The extensions the filter is to recognize.
RecognizedExtensions ==
    {"jpg", "jpeg", "png", "gif", "bmp", "webp", "svg", "tiff", "heic", "avif", "ico",
     "jxl", "heif", "raw"}

\* The extension of a key, read off its end: the symbol after the last '.' of
\* the last name of the path (the '/' that closes a folder marker aside), when
\* that '.' does not open the name; none otherwise.
HasExtension(key, ext) ==
    \E end \in 3..Len(key) :
        /\ \A i \in (end + 1)..Len(key) : key[i] = "/"
        /\ key[end] = ext
        /\ key[end - 1] = "."
        /\ key[end - 2] # "/"

\* Case-insensitive: the extension as written folds to a recognized one.
Recognized(key) ==
    \E ext \in {"jpg", "JPG", "png", "PNG", "jpeg", "Jpeg", "txt", "x", "h", "noext"} :
        /\ HasExtension(key, ext)
        /\ LowerSymbol(ext) \in RecognizedExtensions

\* C19: a call that returns hands back a listed key under the prefix exactly
\* when its extension, whatever its case, is a recognized one; keys with
\* another extension or with none are left out, and nothing else is returned.
C19_RecognizedExtensionsOnly ==
    (ListImagesDone /\ resp.status = "returned") =>
        /\ \A k \in Range(objectStore[bucketName]) :
              StartsWith(k, folderPrefix) => ((k \in Range(resp.body)) <=> Recognized(k))
        /\ \A k \in Range(resp.body) :
              k \in Range(objectStore[bucketName]) /\ StartsWith(k, folderPrefix)

\* C19 witness: an upper-case extension is returned beside keys without a
\* recognized extension that are left out.
C19_Witness ==
    /\ ListImagesDone
    /\ resp.status = "returned"
    /\ resp.body = << <<"vehicles", "/", "b", ".", "PNG">> >>
    /\ <<"vehicles", "/", ".", "jpg">> \in Range(objectStore[bucketName])
    /\ <<"vehicles", "/", "noext">> \in Range(objectStore[bucketName])

-----------------------------------------------------------------------------
(* Properties of the authentication (SpecAuth). *)

\* The request carries 'Authorization: Bearer <token>' with the configured token.
CarriesAuthToken(authHeader) ==
    /\ authHeader # Undefined
    /\ authHeader # EmptyStr
    /\ Head(authHeader) = "Bearer "
    /\ Trim(Tail(authHeader)) = AuthToken

\* C20: in both backends the handler of a route other than GET /health has run
\* (the answer is the handler's, the store was read or written) only for a
\* request that carries the configured token; any other request is answered 401
\* and costs no store request.
C20_HandlersBehindAuthentication ==
    (request.route \in ProtectedRoutes) =>
        IF CarriesAuthToken(request.authorization)
        THEN resp.op # "authenticateAdmin"
        ELSE resp.op = "authenticateAdmin" /\ resp.status = 401 /\ storeReqs = 0

-----------------------------------------------------------------------------
(* Properties of the entity lists and of deletion (SpecEntities). *)

ListViews == {"getCarriers", "getVehicles", "getTransitHubs", "getRegions"}
ListedEntities(op) ==
    CASE op = "getCarriers" -> carriersCollection
      [] op = "getVehicles" -> vehiclesCollection
      [] op = "getTransitHubs" -> transitHubsCollection
      [] op = "getRegions" -> regionsCollection
\* The rows that refer to the entities of a list, and the field they do it by.
ReferringRows(op) ==
    CASE op = "getCarriers" -> picturesCollection
      [] op = "getVehicles" -> picturesCollection
      [] op = "getTransitHubs" -> transitHubPicturesCollection
      [] op = "getRegions" -> regionTransitHubsCollection
ReferringField(op) ==
    CASE op = "getCarriers" -> "carrier"
      [] op = "getVehicles" -> "vehicle"
      [] op = "getTransitHubs" -> "transit_hub"
      [] op = "getRegions" -> "region"
CountField(op) == IF op = "getRegions" THEN "transit_hub_count" ELSE "pictures"

\* C12: a list view that no store failure has stopped is answered, holds each
\* stored entity exactly once and nothing else, and gives each the number of
\* relation rows that name its ID, which is 0 for an ID no row names.
C12_EntityListsComplete ==
    (resp.op \in ListViews) =>
        /\ ~storeFailed => resp.status = 200
        /\ resp.status = 200 =>
              LET entities == ListedEntities(resp.op)
                  table == resp.body
              IN /\ Len(table) = Len(entities)
                 /\ \A i \in 1..Len(entities) :
                       Cardinality({j \in 1..Len(table) : table[j]._id = entities[i]._id}) = 1
                 /\ \A j \in 1..Len(table) :
                       table[j][CountField(resp.op)] =
                           Cardinality(RowsWith(ReferringRows(resp.op),
                                                ReferringField(resp.op), table[j]._id))

\* C12 witness: two carriers are listed; one has a picture, the other has none
\* and so no key in the counts.
C12_Witness ==
    /\ resp.op = "getCarriers"
    /\ resp.status = 200
    /\ Len(resp.body) = 2
    /\ \E i, j \in 1..2 : resp.body[i].pictures = 1 /\ resp.body[j].pictures = 0

DeleteOps == {"deleteCarrier", "deleteVehicle", "deleteTransitHub", "deleteRegion"}
DeletesFrom(op) ==
    CASE op = "deleteCarrier" -> "carriers"
      [] op = "deleteVehicle" -> "vehicles"
      [] op = "deleteTransitHub" -> "transitHubs"
      [] op = "deleteRegion" -> "regions"

\* The rows of an entity collection after the step.
EntityRowsAfter(name) ==
    CASE name = "carriers" -> carriersCollection'
      [] name = "vehicles" -> vehiclesCollection'
      [] name = "transitHubs" -> transitHubsCollection'
      [] name = "regions" -> regionsCollection'

\* C15: a delete request takes at most one row out of its own collection, the
\* row with the ID it names, and leaves every other entity row, every relation
\* row and so both picture tables as they were.
C15_DeleteRemovesOneRow ==
    [][(resp'.op \in DeleteOps) =>
          LET name == DeletesFrom(resp'.op)
              before == EntityRows(name)
              after == EntityRowsAfter(name)
          IN /\ UNCHANGED <<picturesCollection, seriesCollection,
                            transitHubPicturesCollection, regionTransitHubsCollection,
                            objectStore>>
             /\ \A other \in EntityCollections \ {name} :
                   EntityRowsAfter(other) = EntityRows(other)
             /\ Len(after) >= Len(before) - 1
             /\ Range(after) \subseteq Range(before)
             /\ \A row \in Range(before) \ Range(after) : row._id = resp'.body
             /\ convertToTravelPictureTable(picturesCollection')
                   = convertToTravelPictureTable(picturesCollection)
             /\ aggregatePictureData(picturesCollection', seriesCollection')
                   = aggregatePictureData(picturesCollection, seriesCollection)]_vars

\* C15 witness: of two carriers the first was deleted; the other is stored, and
\* a picture of the deleted one is still stored and still in the pair table.
C15_Witness ==
    /\ resp.op = "deleteCarrier"
    /\ resp.status = 200
    /\ resp.body = <<"c1">>
    /\ Len(carriersCollection) = 1
    /\ carriersCollection[1]._id = <<"c2">>
    /\ \E i \in 1..Len(picturesCollection) : picturesCollection[i].carrier = <<"c1">>
    /\ \E i \in 1..Len(convertToTravelPictureTable(picturesCollection)) :
          convertToTravelPictureTable(picturesCollection)[i].carrier = <<"c1">>

-----------------------------------------------------------------------------
(* Reads leave the stores alone (SpecReads); dangling references (SpecSeries). *)

ReadOps ==
    {"getPictureCounts", "getTravelPicturesTable", "getTravelPicturesSeries",
     "travels", "transit-hubs"}

\* C14: a step of a counting call, of either table or of the reconciliation (its
\* scan, each of its page responses, its failure) leaves every collection and
\* the object store holding what they held.
C14_ReadsChangeNothing ==
    [][(resp'.op \in ReadOps \/ lpc = "awaiting" \/ lpc' = "awaiting") =>
          UNCHANGED <<picturesCollection, seriesCollection, transitHubPicturesCollection,
                      carriersCollection, vehiclesCollection, transitHubsCollection,
                      regionsCollection, regionTransitHubsCollection, objectStore>>]_vars

\* C14 witness: a reconciliation has failed on its second page request and the
\* two linked pictures and the three listed objects are where they were.
C14_Witness ==
    /\ resp.op = "travels"
    /\ resp.status = 500
    /\ s3Failed
    /\ s3Reqs = 2
    /\ Len(picturesCollection) = 2
    /\ Len(objectStore[<<"milememory">>]) = 3

\* The pictures whose vehicle a VehicleSeries row names.
HasSeriesRow(pic) ==
    \E j \in 1..Len(seriesCollection) : seriesCollection[j].vehicle = pic.vehicle
JoinedPictures == SelectSeq(picturesCollection, HasSeriesRow)

\* C16: the carrier x series request is answered whenever no store request has
\* failed, whatever the pictures refer to; the table is the one the pictures
\* with a VehicleSeries row give on their own, and its counts sum to the
\* number of (picture, VehicleSeries row) matches by vehicle.
C16_DanglingRowsLeftOut ==
    (resp.op = "getTravelPicturesSeries") =>
        /\ ~storeFailed => resp.status = 200
        /\ resp.status = 200 =>
              /\ resp.body = aggregatePictureData(JoinedPictures, seriesCollection)
              /\ SumCounts(resp.body, 1) =
                    Cardinality({<<i, j>> \in (1..Len(picturesCollection))
                                               \X (1..Len(seriesCollection)) :
                        seriesCollection[j].vehicle = picturesCollection[i].vehicle})

\* C16 witness: no carrier or vehicle entity is stored; one picture has a
\* vehicle without a VehicleSeries row, another has one, and the table holds a row.
C16_Witness ==
    /\ SeriesTableReturned
    /\ carriersCollection = <<>>
    /\ vehiclesCollection = <<>>
    /\ Len(JoinedPictures) >= 1
    /\ Len(JoinedPictures) < Len(picturesCollection)
    /\ Len(resp.body) >= 1

-----------------------------------------------------------------------------
(* The grouping key and the counting per row (SpecTable, SpecSeries). *)

StoredPairs ==
    {<<picturesCollection[i].carrier, picturesCollection[i].vehicle>> :
        i \in 1..Len(picturesCollection)}
\* The VehicleSeries rows of the vehicle of picture i, by position; those of series s.
SeriesRowsOf(i) ==
    {j \in 1..Len(seriesCollection) :
        seriesCollection[j].vehicle = picturesCollection[i].vehicle}
SeriesRowsIn(i, s) == {j \in SeriesRowsOf(i) : seriesCollection[j].series = s}
StoredSeriesPairs ==
    UNION {{<<picturesCollection[i].carrier, seriesCollection[j].series>> :
               j \in SeriesRowsOf(i)} : i \in 1..Len(picturesCollection)}

\* C26: every row of either table carries a (carrier, vehicle) or (carrier,
\* series) pair as the source rows store it, and the table has as many rows as
\* there are distinct such pairs (no two pairs share a row).
C26_KeyRoundTrips ==
    /\ PairTableReturned =>
          /\ \A i \in 1..Len(resp.body) :
                <<resp.body[i].carrier, resp.body[i].vehicle>> \in StoredPairs
          /\ Len(resp.body) = Cardinality(StoredPairs)
    /\ SeriesTableReturned =>
          /\ \A i \in 1..Len(resp.body) :
                <<resp.body[i].carrier, resp.body[i].series>> \in StoredSeriesPairs
          /\ Len(resp.body) = Cardinality(StoredSeriesPairs)

NoBarStored ==
    \A i \in 1..Len(picturesCollection) : "|" \notin Range(picturesCollection[i].carrier)

\* C27: the counts of the carrier x series table sum to the sum, over the
\* pictures, of the number of VehicleSeries rows of the picture's vehicle; and
\* where no carrier holds the key separator, the count of a row is the number
\* of (picture of the carrier, VehicleSeries row of its vehicle and the series)
\* matches, a row stored twice counting twice.
C27_CountedPerSeriesRow ==
    SeriesTableReturned =>
        /\ SumCounts(resp.body, 1) =
              SumOver([i \in 1..Len(picturesCollection) |-> Cardinality(SeriesRowsOf(i))],
                      1..Len(picturesCollection))
        /\ NoBarStored =>
              \A r \in 1..Len(resp.body) :
                  resp.body[r].count =
                    SumOver([i \in 1..Len(picturesCollection) |->
                               IF picturesCollection[i].carrier = resp.body[r].carrier
                               THEN Cardinality(SeriesRowsIn(i, resp.body[r].series))
                               ELSE 0],
                            1..Len(picturesCollection))

\* C27 witness: one picture, whose vehicle two equal VehicleSeries rows link to
\* one series, is counted 2 in the only row of the table.
C27_Witness ==
    /\ SeriesTableReturned
    /\ Len(picturesCollection) = 1
    /\ Len(seriesCollection) = 2
    /\ seriesCollection[1].vehicle = picturesCollection[1].vehicle
    /\ seriesCollection[2].vehicle = seriesCollection[1].vehicle
    /\ seriesCollection[2].series = seriesCollection[1].series
    /\ Len(resp.body) = 1
    /\ resp.body[1].count = 2

-----------------------------------------------------------------------------
(* Termination of the listing (SpecPages). *)

\* C25: a response without a continuation token, or with an empty one, ends the
\* call at once with as many requests sent as pages received, and the call goes
\* on to a further request only on a response with a non-empty token; every
\* call whose requests are settled ends.
C25_ListingTerminates ==
    /\ [][(lpc = "awaiting" /\ s3Responses' = s3Responses + 1 /\ ~s3Failed') =>
             IF continuationToken' \in {Undefined, EmptyStr}
             THEN /\ lpc' = "idle"
                  /\ resp'.status = "returned"
                  /\ s3Reqs' = s3Reqs
                  /\ s3Reqs' = s3Responses'
             ELSE /\ lpc' = "awaiting"
                  /\ s3Reqs' = s3Reqs + 1]_vars
    /\ (lpc = "awaiting") ~> (lpc = "idle")

\* C25 witness: a call has returned after two pages, the first with a token and
\* the second with an empty one.
C25_Witness ==
    /\ resp.op = "listImages"
    /\ resp.status = "returned"
    /\ lpc = "idle"
    /\ s3Reqs = 2
    /\ s3Responses = 2
    /\ continuationToken = EmptyStr

-----------------------------------------------------------------------------
(* The views over sets of IDs (SpecViews). *)

SeriesViewReturned == resp.op = "getVehiclesWithinSeries" /\ resp.status = 200

\* C22: a read filtered by a set of IDs sends no request for an empty set: the
\* series view of a series without rows sends its one scan and returns nothing,
\* and the regions view of no regions sends its one scan and returns nothing.
C22_EmptyIdSetsNotQueried ==
    /\ (SeriesViewReturned /\ GetVehiclesInSeries(resp.series) = <<>>) =>
          /\ storeReqs = 1
          /\ resp.body.vehicles = <<>>
          /\ resp.body.pictures = <<>>
    /\ (resp.op = "getRegions" /\ resp.status = 200 /\ regionsCollection = <<>>) =>
          /\ storeReqs = 1
          /\ resp.body = <<>>

\* The part of C22 about the series view alone.
SeriesViewEmptyNotQueried ==
    (SeriesViewReturned /\ GetVehiclesInSeries(resp.series) = <<>>) =>
        /\ storeReqs = 1
        /\ resp.body.vehicles = <<>>
        /\ resp.body.pictures = <<>>

RECURSIVE SumPictures(_, _)
SumPictures(table, i) ==
    IF i > Len(table) THEN 0 ELSE table[i].pictures + SumPictures(table, i + 1)

\* C28: in the series view, picture_count is the sum of the 'pictures' fields
\* of the listed vehicles, vehicle_number is the number of listed vehicles, and
\* every picture listed is of a listed vehicle.
C28_SeriesViewConsistent ==
    SeriesViewReturned =>
        /\ resp.body.picture_count = SumPictures(resp.body.vehicles, 1)
        /\ resp.body.vehicle_number = Len(resp.body.vehicles)
        /\ \A i \in 1..Len(resp.body.pictures) :
              \E j \in 1..Len(resp.body.vehicles) :
                  resp.body.vehicles[j]._id = resp.body.pictures[i].vehicle

\* C28 where every VehicleSeries row of the series names a stored vehicle.
SeriesViewConsistentWhenStored ==
    (/\ SeriesViewReturned
     /\ LET ids == GetVehiclesInSeries(resp.series)
        IN \A i \in 1..Len(ids) :
              \E j \in 1..Len(vehiclesCollection) : vehiclesCollection[j]._id = ids[i])
      => C28_SeriesViewConsistent

-----------------------------------------------------------------------------
(* Identifiers, updates and rejected writes (SpecUpdates). *)

DistinctIds(rows) ==
    \A i, j \in 1..Len(rows) : rows[i]._id = rows[j]._id => i = j

CreateOps == {"postCarrier", "postVehicle", "createTransitHub", "createRegion"}
UpdateOps == {"patchCarrier", "patchRegion", "updateVehicle", "patchTransitHub"}
CollectionOf(op) ==
    CASE op \in {"postCarrier", "patchCarrier"} -> "carriers"
      [] op \in {"postVehicle", "updateVehicle"} -> "vehicles"
      [] op \in {"createTransitHub", "patchTransitHub"} -> "transitHubs"
      [] op \in {"createRegion", "patchRegion"} -> "regions"

\* C21: no two rows of a collection have the same identifier; a create that
\* stores a row gives it an identifier no row of the collection has and that
\* the service has issued to no row before, whatever the body carried; and an
\* update leaves the identifier at every position what it was, the replaced
\* row's being the one asked for.
C21_IdentifiersUniqueAndKept ==
    /\ [](/\ \A name \in EntityCollections : DistinctIds(EntityRows(name))
          /\ DistinctIds(picturesCollection)
          /\ DistinctIds(seriesCollection)
          /\ DistinctIds(transitHubPicturesCollection)
          /\ DistinctIds(regionTransitHubsCollection))
    /\ [][/\ (resp'.op \in CreateOps /\ resp'.status = 200) =>
               LET name == CollectionOf(resp'.op)
                   before == EntityRows(name)
                   after == EntityRowsAfter(name)
               IN /\ Len(after) = Len(before) + 1
                  /\ SubSeq(after, 1, Len(before)) = before
                  /\ after[Len(after)]._id = <<UuidSymbols[name][uuidsIssued[name] + 1]>>
                  /\ uuidsIssued'[name] = uuidsIssued[name] + 1
                  /\ \A i \in 1..Len(before) : before[i]._id # after[Len(after)]._id
          /\ (resp'.op \in UpdateOps) =>
               LET name == CollectionOf(resp'.op)
                   before == EntityRows(name)
                   after == EntityRowsAfter(name)
               IN /\ Len(after) = Len(before)
                  /\ \A i \in 1..Len(before) : after[i]._id = before[i]._id
                  /\ \A i \in 1..Len(before) :
                        after[i] # before[i] => after[i]._id = resp'.id]_vars

\* C21 witness: the carrier c1 was replaced by a body that carried the _id c2
\* while a carrier c2 is stored: the replaced row is still c1, with the new name.
C21_Witness ==
    /\ resp.op = "patchCarrier"
    /\ resp.status = 200
    /\ resp.id = <<"c1">>
    /\ Len(carriersCollection) = 2
    /\ carriersCollection[1]._id = <<"c1">>
    /\ carriersCollection[1].name = <<"n2">>
    /\ carriersCollection[2]._id = <<"c2">>
    /\ carriersCollection[2].name = <<"n1">>

WriteOps ==
    CreateOps \cup UpdateOps
      \cup {"linkPhotoToTravel", "linkSeriesToVehicle", "linkPhotoToTransitHub",
            "linkRegionToTransitHub"}

\* C24: a create, update or link request answered with an error leaves every
\* collection as it was; a 400 is answered with no write sent (after the one
\* look-up where the handler starts with getEntityById), a 404 after the
\* look-up alone, and the 500 of a failed time-zone look-up with no store
\* request at all.
C24_RejectedWritesChangeNothing ==
    [][(resp'.op \in WriteOps /\ resp'.status # 200) =>
          /\ UNCHANGED <<picturesCollection, seriesCollection, transitHubPicturesCollection,
                         carriersCollection, vehiclesCollection, transitHubsCollection,
                         regionsCollection, regionTransitHubsCollection, uuidsIssued>>
          /\ resp'.status \in {400, 404, 500}
          /\ resp'.status = 400 =>
                storeReqs' = (IF resp'.op \in {"patchCarrier", "patchRegion"} THEN 1 ELSE 0)
          /\ resp'.status = 404 =>
                /\ resp'.op \in {"patchCarrier", "patchRegion"}
                /\ storeReqs' = 1
                /\ \A i \in 1..Len(EntityRows(CollectionOf(resp'.op))) :
                      EntityRows(CollectionOf(resp'.op))[i]._id # resp'.id
          /\ (resp'.status = 500 /\ ~storeFailed') =>
                /\ resp'.op \in {"createTransitHub", "patchTransitHub"}
                /\ storeReqs' = 0]_vars

\* C24 witness: a patchCarrier of a stored carrier was answered 400 for its
\* blank name, and the carrier has the name it had.
C24_Witness ==
    /\ resp.op = "patchCarrier"
    /\ resp.status = 400
    /\ storeReqs = 1
    /\ Len(carriersCollection) = 1
    /\ carriersCollection[1]._id = resp.id
    /\ carriersCollection[1].name = <<"n1">>

\* C30: an update leaves the identifiers a collection holds, and their order,
\* as they were, whether the identifier asked for is stored or not; it leaves
\* every row with another identifier and every other collection as they were;
\* and an update answered 200 for a stored identifier leaves the document sent,
\* under that identifier, where the row was.
C30_UpdateReplacesOneRow ==
    [][(resp'.op \in UpdateOps) =>
          LET name == CollectionOf(resp'.op)
              before == EntityRows(name)
              after == EntityRowsAfter(name)
          IN /\ UNCHANGED <<picturesCollection, seriesCollection,
                            transitHubPicturesCollection, regionTransitHubsCollection,
                            uuidsIssued>>
             /\ \A other \in EntityCollections \ {name} :
                   EntityRowsAfter(other) = EntityRows(other)
             /\ [i \in 1..Len(after) |-> after[i]._id]
                   = [i \in 1..Len(before) |-> before[i]._id]
             /\ \A i \in 1..Len(before) :
                   IF before[i]._id = resp'.id /\ resp'.status = 200
                   THEN after[i] = resp'.body /\ resp'.body._id = resp'.id
                   ELSE after[i] = before[i]]_vars

\* C30 witness: an updateVehicle of the identifier v2, which no row has, was
\* answered 200 and the one stored vehicle, v1, is as it was.
C30_Witness ==
    /\ resp.op = "updateVehicle"
    /\ resp.status = 200
    /\ resp.id = <<"v2">>
    /\ Len(vehiclesCollection) = 1
    /\ vehiclesCollection[1]._id = <<"v1">>
    /\ vehiclesCollection[1].name = <<"n1">>

-----------------------------------------------------------------------------
(* Calls side by side (SpecConcurrent). *)

\* What the call of a frame returns when no other call runs.
ResultAlone(frame) ==
    CASE frame.kind = "listImages" ->
           ImageKeysUnder(frame.bucketName, frame.folderPrefix)
      [] frame.kind = "travels" ->
           Unlinked(ExtractUrls(picturesCollection),
                    ImageKeysUnder(frame.bucketName, frame.folderPrefix))
      [] frame.kind = "getTravelPicturesSeries" ->
           aggregatePictureData(picturesCollection, seriesCollection)

\* C23: with the stores not written, every call that has its result, whatever
\* other calls ran beside it and however their responses interleaved, has the
\* result it has when it runs alone.
C23_CallsIndependent ==
    \A c \in CallIds : calls[c].pc = "done" => calls[c].result = ResultAlone(calls[c])

\* C23 witness: while a listing is between two of its pages with one key
\* collected, a reconciliation beside it has its result, the one unlinked key.
C23_Witness ==
    /\ calls[1].kind = "listImages"
    /\ calls[1].pc = "page"
    /\ Len(calls[1].s3Images) = 1
    /\ calls[1].continuationToken # Undefined
    /\ calls[2].kind = "travels"
    /\ calls[2].pc = "done"
    /\ Len(calls[2].linkedPictures) = 1
    /\ Len(calls[2].result) = 1
    /\ calls[2].result[1] # KeyA

-----------------------------------------------------------------------------
(* The table call among writes (SpecInterleaved). *)

\* C29: the table a carrier x series call returns is the table of the store
\* contents at one of the instants between its start and its second scan.
C29_TableOfOneInstant ==
    \A c \in CallIds :
        (calls[c].kind = "getTravelPicturesSeries" /\ calls[c].pc = "done") =>
            calls[c].result \in calls[c].instants

\* C29 for the calls during which the store holds the pictures it held at
\* their first scan.
TableOfOneInstantUnlessPicturesLinked ==
    \A c \in CallIds :
        (/\ calls[c].kind = "getTravelPicturesSeries"
         /\ calls[c].pc = "done"
         /\ calls[c].pictures = picturesCollection) =>
            calls[c].result \in calls[c].instants

====
